---- MODULE Spec2Model ----
(***************************************************************************)
(* The yscript graph editor session (GraphEditor, src/src/extension.ts)    *)
(* and its consequence check (checkConsequences, src/unnamed/part_003).    *)
(*                                                                         *)
(* Strings that the code takes apart (fact descriptors, SMT constants,     *)
(* solver output lines) are sequences of one-character strings.  JS values *)
(* true / false / undefined / null are the strings "true", "false",        *)
(* "undefined", "null".  A JS object used as a hash is a function whose    *)
(* DOMAIN is its set of keys.                                              *)
(***************************************************************************)
EXTENDS Integers, Sequences, FiniteSets, TLC

\* ------------------------------------------------------------------ bounds

\* Requests (incorporateFact messages) one behaviour may hold.
MaxRequests == 3

\* Text changes one behaviour may hold.
MaxEdits == 1

\* Solver runs of one behaviour that end without a verdict.
MaxFailures == 1

\* ------------------------------------------------------- small utilities

Range(s) == {s[i] : i \in 1..Len(s)}

\* obj with key k removed (JS: delete obj[k]).
Delete(obj, k) == [x \in DOMAIN obj \ {k} |-> obj[x]]

\* obj with obj[k] = v (JS: obj[k] = v).
Assign(obj, k, v) == [x \in DOMAIN obj \cup {k} |-> IF x = k THEN v ELSE obj[x]]

\* obj[k] as JS reads it: "undefined" for a missing key.
Get(obj, k) == IF k \in DOMAIN obj THEN obj[k] ELSE "undefined"

\* JS truthiness of a value held in the assertion hash.
Truthy(v) == v = "true"

EmptyObj == [x \in {} |-> "undefined"]

\* The value undefined where an object is expected: this.program before
\* the first compile, a property that was never set.
Undefined == [undefined |-> TRUE]

\* obj[k] where an object is expected.
Field(obj, k) == IF k \in DOMAIN obj THEN obj[k] ELSE Undefined

\* ------------------------------------------------------------ descriptors

dA == <<"A">>
dB == <<"B">>
dC == <<"C">>

\* The descriptors a message of the graph view may name.
Descriptors == {dA, dB, dC}

\* The values a message of the graph view may carry.
MessageValues == {"true", "false", "null"}

\* ---------------------------------------------------- compiled programs

FactExpr(d) == [type |-> "fact_expr", descriptor |-> d]
AndExpr(l, r) == [type |-> "and_expr", left |-> l, right |-> r]
OrExpr(l, r) == [type |-> "or_expr", left |-> l, right |-> r]
NotExpr(e) == [type |-> "not_expr", negand |-> e]
Statement(t, src, dest) ==
    [type |-> t, dest_fact |-> [descriptor |-> dest], src_expr |-> src]

\* The Programs compileFromCst yields for the document versions of the
\* session; facts lists the keys of program.facts in insertion order (a
\* statement's dest_fact first, then the facts of its source expression).
\*   1:  rule R { only_if A and B then C }
\*   2:  rule R { if_then A then C }
Rule(n, stmts) == [name |-> n, statements |-> stmts]

Documents ==
    << [rules |-> << Rule("R", <<Statement("only_if", AndExpr(FactExpr(dA), FactExpr(dB)), dC)>>) >>,
        facts |-> <<dC, dA, dB>>],
       [rules |-> << Rule("R", <<Statement("if_then", FactExpr(dA), dC)>>) >>,
        facts |-> <<dC, dA>>] >>

NumDocuments == Len(Documents)

\* --------------------------------------------------------- logic encoder

SanitizeChar(c) == IF c \in {" ", "'", "\""} THEN "_" ELSE c

\* factName.replace(/[ '"]/g, '_')
sanitize(factName) == [i \in 1..Len(factName) |-> SanitizeChar(factName[i])]

\* The Bool constant named after the sanitized descriptor.
descriptorToZ3(descriptor) == [op |-> "const", name |-> sanitize(descriptor)]

\* What a throw of the encoder leaves in place of a formula.
Raised == [op |-> "throw"]

\* A formula one of whose operands was never built.
RECURSIVE Raises(_)
Raises(ast) ==
    \/ ast.op = "throw"
    \/ ast.op \in {"and", "or", "implies"} /\ (Raises(ast.a) \/ Raises(ast.b))
    \/ ast.op = "not" /\ Raises(ast.a)

\* A faulty expression encoder: or_expr encoded as a conjunction.
RECURSIVE ExprToZ3OrAsAnd(_)
ExprToZ3OrAsAnd(expr) ==
    IF "undefined" \in DOMAIN expr THEN Raised
    ELSE IF Get(expr, "type") \in {"and_expr", "or_expr"}
    THEN [op |-> "and", a |-> ExprToZ3OrAsAnd(Field(expr, "left")),
                        b |-> ExprToZ3OrAsAnd(Field(expr, "right"))]
    ELSE IF Get(expr, "type") = "not_expr"
    THEN [op |-> "not", a |-> ExprToZ3OrAsAnd(Field(expr, "negand"))]
    ELSE IF "descriptor" \in DOMAIN expr THEN descriptorToZ3(expr.descriptor)
    ELSE Raised

\* Reading expr.type of undefined throws; an expression that is none of
\* the three connectives and has no string descriptor throws.
RECURSIVE yscriptExprToZ3(_)
yscriptExprToZ3(expr) ==
    IF "undefined" \in DOMAIN expr THEN Raised
    ELSE IF Get(expr, "type") = "and_expr"
    THEN [op |-> "and", a |-> yscriptExprToZ3(Field(expr, "left")),
                        b |-> yscriptExprToZ3(Field(expr, "right"))]
    ELSE IF Get(expr, "type") = "or_expr"
    THEN [op |-> "or", a |-> yscriptExprToZ3(Field(expr, "left")),
                       b |-> yscriptExprToZ3(Field(expr, "right"))]
    ELSE IF Get(expr, "type") = "not_expr"
    THEN [op |-> "not", a |-> yscriptExprToZ3(Field(expr, "negand"))]
    ELSE IF "descriptor" \in DOMAIN expr THEN descriptorToZ3(expr.descriptor)
    ELSE Raised

mk_implies(p, q) == [op |-> "implies", a |-> p, b |-> q]
mk_not(p) == [op |-> "not", a |-> p]

\* Faulty encodings of only_if: one implication of the two left out.
OnlyIfNecessityOnly(srcExpr, destFact) ==
    << mk_implies(mk_not(srcExpr), mk_not(destFact)) >>

OnlyIfSufficiencyOnly(srcExpr, destFact) ==
    << mk_implies(srcExpr, destFact) >>

\* only_if: src => dest and (not src) => (not dest); if_then: src => dest.
OnlyIfToZ3(srcExpr, destFact) ==
    << mk_implies(srcExpr, destFact), mk_implies(mk_not(srcExpr), mk_not(destFact)) >>

\* The formulas of a statement, or the throw met while building them.
UnlessRaised(formulas) ==
    IF \E i \in 1..Len(formulas) : Raises(formulas[i]) THEN <<Raised>>
    ELSE formulas

\* A faulty statement encoder: if_then encoded as only_if is.
StatementToZ3AllOnlyIf(expr) ==
    IF expr.type \in {"if_then", "only_if"}
    THEN UnlessRaised(OnlyIfToZ3(yscriptExprToZ3(Field(expr, "src_expr")),
                                 yscriptExprToZ3(Field(expr, "dest_fact"))))
    ELSE <<Raised>>

yscriptStatementToZ3(expr) ==
    IF expr.type = "if_then"
    THEN UnlessRaised(<< mk_implies(yscriptExprToZ3(Field(expr, "src_expr")),
                                    yscriptExprToZ3(Field(expr, "dest_fact"))) >>)
    ELSE IF expr.type = "only_if"
    THEN UnlessRaised(OnlyIfToZ3(yscriptExprToZ3(Field(expr, "src_expr")),
                                 yscriptExprToZ3(Field(expr, "dest_fact"))))
    ELSE <<Raised>>

RECURSIVE StatementsToZ3(_)
StatementsToZ3(statements) ==
    IF statements = <<>> THEN <<>>
    ELSE yscriptStatementToZ3(Head(statements)) \o StatementsToZ3(Tail(statements))

\* The formulas of every statement of every rule, in rule and statement order.
RECURSIVE RulesToZ3(_)
RulesToZ3(rules) ==
    IF rules = <<>> THEN <<>>
    ELSE StatementsToZ3(Head(rules).statements) \o RulesToZ3(Tail(rules))

yscriptProgramToZ3(prog) == RulesToZ3(prog.rules)

\* symbolsToDescriptors after the declare-const loop: a later descriptor
\* with the same constant overwrites an earlier one.
RECURSIVE SymbolsToDescriptors(_)
SymbolsToDescriptors(facts) ==
    IF facts = <<>> THEN EmptyObj
    ELSE LET d == facts[Len(facts)]
             rest == SymbolsToDescriptors(SubSeq(facts, 1, Len(facts) - 1))
         IN Assign(rest, sanitize(d), d)

\* The SMT-LIB input written to the solver: one declare-const per key of
\* program.facts, one assert per rule formula, one (assert (= c v)) per
\* entry of the assertion hash.
SmtCode(prog, assertions) ==
    [ declare |-> [i \in 1..Len(prog.facts) |-> sanitize(prog.facts[i])],
      formulas |-> yscriptProgramToZ3(prog),
      equalities |-> {<<sanitize(d), assertions[d]>> : d \in DOMAIN assertions} ]

\* ------------------------------------------------------------ the solver

\* Truth of a formula under a valuation of the declared constants.
RECURSIVE Eval(_, _)
Eval(f, val) ==
    IF f.op = "const" THEN val[f.name]
    ELSE IF f.op = "not" THEN ~Eval(f.a, val)
    ELSE IF f.op = "and" THEN Eval(f.a, val) /\ Eval(f.b, val)
    ELSE IF f.op = "or" THEN Eval(f.a, val) \/ Eval(f.b, val)
    ELSE Eval(f.a, val) => Eval(f.b, val)

RECURSIVE ConstantsOf(_)
ConstantsOf(f) ==
    IF f.op = "const" THEN {f.name}
    ELSE IF f.op = "not" THEN ConstantsOf(f.a)
    ELSE ConstantsOf(f.a) \cup ConstantsOf(f.b)

\* SMT-LIB accepts the input only if no constant is declared twice and
\* every constant an assert uses is declared.
WellFormed(code) ==
    /\ \A i, j \in 1..Len(code.declare) : code.declare[i] = code.declare[j] => i = j
    /\ \A i \in 1..Len(code.formulas) : ConstantsOf(code.formulas[i]) \subseteq Range(code.declare)
    /\ \A e \in code.equalities : e[1] \in Range(code.declare)

\* The valuations of the declared constants that satisfy every assert.
Models(code) ==
    {val \in [Range(code.declare) -> BOOLEAN] :
        /\ \A i \in 1..Len(code.formulas) : Eval(code.formulas[i], val)
        /\ \A e \in code.equalities : val[e[1]] = (e[2] = "true")}

LineSat == <<"s", "a", "t">>
LineUnsat == <<"u", "n", "s", "a", "t">>
LineUnknown == <<"u", "n", "k", "n", "o", "w", "n">>
NotPrefix == <<"(", "n", "o", "t", " ">>

\* The output line for a constant whose value every model agrees on.
ConsequenceLine(c, value) == IF value THEN c ELSE NotPrefix \o c \o <<")">>

RECURSIVE ConsequenceLines(_, _)
ConsequenceLines(declare, models) ==
    IF declare = <<>> THEN <<>>
    ELSE LET c == Head(declare)
             rest == ConsequenceLines(Tail(declare), models)
         IN IF \A m \in models : m[c] THEN <<ConsequenceLine(c, TRUE)>> \o rest
            ELSE IF \A m \in models : ~m[c] THEN <<ConsequenceLine(c, FALSE)>> \o rest
            ELSE rest

\* The lines the solver process writes for a well-formed input: unsat, or
\* sat followed by one line per constant whose value is entailed.
SolverStdout(code) ==
    LET models == Models(code)
    IN IF models = {} THEN <<LineUnsat>>
       ELSE <<LineSat>> \o ConsequenceLines(code.declare, models)

\* ------------------------------------------- checkConsequences: stdout

StartsWith(line, prefix) ==
    Len(line) >= Len(prefix) /\ SubSeq(line, 1, Len(prefix)) = prefix

\* conseqAst.slice(5, -1)
Slice5(line) == SubSeq(line, 6, Len(line) - 1)

\* The forEach over consequences.slice(1): "throw" stands for the Error
\* raised on a constant symbolsToDescriptors does not know.
RECURSIVE ApplyConsequences(_, _, _)
ApplyConsequences(lines, outFacts, symbolsToDescriptors) ==
    IF lines = <<>> THEN [threw |-> FALSE, facts |-> outFacts]
    ELSE LET conseqAst == Head(lines)
             negated == StartsWith(conseqAst, NotPrefix)
             constant == IF negated THEN Slice5(conseqAst) ELSE conseqAst
         IN IF constant \notin DOMAIN symbolsToDescriptors
            THEN [threw |-> TRUE, facts |-> outFacts]
            ELSE LET d == symbolsToDescriptors[constant]
                 IN IF d \in DOMAIN outFacts
                    THEN ApplyConsequences(Tail(lines), outFacts, symbolsToDescriptors)
                    ELSE ApplyConsequences(
                             Tail(lines),
                             Assign(outFacts, d,
                                    [value |-> IF negated THEN "false" ELSE "true",
                                     source |-> "consequence"]),
                             symbolsToDescriptors)

\* outFacts as first filled from the assertion hash the handler reads.
AssertionFacts(assertions) ==
    [d \in DOMAIN assertions |-> [value |-> assertions[d], source |-> "assertion"]]

\* The stdout 'data' handler: data is the output split into lines,
\* assertions the assertion hash as it is when the data arrives.
StdoutHandler(data, assertions, symbolsToDescriptors) ==
    LET outFacts == AssertionFacts(assertions)
        consequences == SelectSeq(data, LAMBDA l : l # <<>>)
    IN IF consequences # <<>> /\ consequences[1] = LineUnsat
       THEN [result |-> "unsat", facts |-> outFacts]
       ELSE IF consequences # <<>> /\ consequences[1] = LineSat
       THEN LET r == ApplyConsequences(Tail(consequences), outFacts, symbolsToDescriptors)
            IN IF r.threw THEN [result |-> "throw", facts |-> r.facts]
               ELSE [result |-> "sat", facts |-> r.facts]
       ELSE [result |-> "undefined", facts |-> outFacts]

\* ------------------------------------------------- GraphEditor handlers

\* A handler that stores the null of a retraction as a value.
AssertValueKeepsNull(assertions, descriptor, value) ==
    Assign(assertions, descriptor, value)

\* factAssertions after the request's value is written (delete on unknown).
AssertValue(assertions, descriptor, value) ==
    IF value = "null" THEN Delete(assertions, descriptor)
    ELSE Assign(assertions, descriptor, value)

\* A faulty rollback: the rejected value is left in the hash.
RollbackKeepsRequest(assertions, descriptor, previousValue) == assertions

\* A faulty rollback: the whole hash is reset on unsat.
RollbackResetsHash(assertions, descriptor, previousValue) ==
    IF Truthy(previousValue) THEN Assign(EmptyObj, descriptor, previousValue)
    ELSE EmptyObj

\* factAssertions after the unsat branch of the continuation.
Rollback(assertions, descriptor, previousValue) ==
    IF Truthy(previousValue) THEN Assign(assertions, descriptor, previousValue)
    ELSE Delete(assertions, descriptor)

NoMessage == [type |-> "none", facts |-> EmptyObj]
FactsUpdated(facts) == [type |-> "lide.factsUpdated", facts |-> facts]
CodeUpdated == [type |-> "lide.codeUpdated.yscript", facts |-> EmptyObj]

\* What the continuation posts to the webview for a result.
ContinuationPost(data) ==
    IF data.result = "sat" THEN FactsUpdated(data.facts) ELSE NoMessage

\* factAssertions after the continuation has handled a result.
ContinuationAssertions(data, assertions, descriptor, previousValue) ==
    IF data.result = "unsat" THEN Rollback(assertions, descriptor, previousValue)
    ELSE assertions

\* ------------------------------------------------------------ the session

VARIABLES
    tree,            \* this.tree: the document version the syntax tree holds
    program,         \* this.program: 0 while undefined, else the version compiled
    timeout,         \* debounce: TRUE while the recompile timer is set
    factAssertions,  \* this.factAssertions
    inflight,        \* consequence checks whose promise is pending, in launch order
    abandoned,       \* checks whose solver ended without stdout data
    nreq,            \* incorporateFact messages received so far
    nedit,           \* text changes received so far
    nfail,           \* solver runs that ended without a verdict so far
    stale,           \* pending checks launched before the latest recompile
    last,            \* the step just taken and what it posted to the webview
    episode,         \* the requests launched since no check was pending
    disposed         \* the webview panel has been disposed

sessionVars == <<tree, program, timeout, factAssertions, inflight, abandoned, nreq,
                 nedit, nfail, stale, last, episode, disposed>>

\* One run of the code builder of checkConsequences, taken on its own.
VARIABLES
    encProgram,      \* program: the Program handed to checkConsequences
    encCode,         \* code: the solver input built so far
    encSymbols,      \* symbolsToDescriptors
    encPc            \* "idle", "start", "declared" (declare-const loop done), "asserted"

encoderVars == <<encProgram, encCode, encSymbols, encPc>>

\* The debounced recompile of one session, with the time of each step.
VARIABLES
    now,             \* the time, in ticks
    timeoutAt,       \* debounce: when the timer held in timeout is due, NoTimer if none
    treeEdits,       \* this.tree: the number of change events applied to it
    calls,           \* the calls of recompile() so far: when, and from which handler
    recompilations   \* the runs of the debounced function so far

debounceVars == <<now, timeoutAt, treeEdits, calls, recompilations>>

\* The syntax tree of one session and the document it follows.
VARIABLES
    docText,         \* document.getText()
    storedTree,      \* this.tree: the text last parsed and the text its nodes spell
    nevents,         \* change events handled so far
    lastEvent,       \* evt.contentChanges of the last change event
    lastEdits        \* the edits this.tree.edit was given during that event, in order

treeVars == <<docText, storedTree, nevents, lastEvent, lastEdits>>

\* The compiler of one session, taken on its own.
VARIABLES
    cst,             \* this.tree.rootNode: the syntax tree the compiler walks
    compiled,        \* this.program as the compiler leaves it
    outcome,         \* how recompile ended on the current tree: "none" (not run yet), "ok", "error"
    ncompile         \* runs of recompile so far

compilerVars == <<cst, compiled, outcome, ncompile>>

\* The fact store of util.ts, a class of its own that keeps the facts and a
\* solver with a scope stack.
VARIABLES
    stateFacts,      \* this.facts: the Map's entries in insertion order
    solverScopes,    \* the equalities asserted in each pushed scope of this.solver
    solving,         \* the solver_get_consequences call not yet settled, if any
    stateStep,       \* what the last step of the fact store did
    nstate           \* calls of incorporateFact so far

stateVars == <<stateFacts, solverScopes, solving, stateStep, nstate>>

\* The variables the session never writes.
nonSessionVars == <<encoderVars, debounceVars, treeVars, compilerVars, stateVars>>

vars == <<sessionVars, nonSessionVars>>

NoCode == [declare |-> <<>>, formulas |-> <<>>, equalities |-> {}]

\* The closure of one checkConsequences call.  code and symbolsToDescriptors
\* are built before the call returns; descriptor and previousValue belong to
\* the continuation; n, value, launchProgram, launchAssertions and slot
\* record the launch for the properties below.
Check(n, descriptor, value, previousValue, prog, assertions, slot) ==
    [ n |-> n,
      descriptor |-> descriptor,
      value |-> value,
      previousValue |-> previousValue,
      code |-> IF prog = 0 THEN NoCode ELSE SmtCode(Documents[prog], assertions),
      symbolsToDescriptors |->
          IF prog = 0 THEN EmptyObj ELSE SymbolsToDescriptors(Documents[prog].facts),
      launchProgram |-> prog,
      launchAssertions |-> assertions,
      slot |-> slot ]

NoCheck == Check(0, <<>>, "null", "undefined", 0, EmptyObj, 0)

Step(action, check, result, posted, wasStale) ==
    [action |-> action, check |-> check, result |-> result, posted |-> posted,
     stale |-> wasStale]

Pending == "pending"

NoEpisode ==
    [base |-> EmptyObj, program |-> 0, reqs |-> <<>>, outs |-> <<>>, clean |-> FALSE]

Remove(seq, i) == SubSeq(seq, 1, i - 1) \o SubSeq(seq, i + 1, Len(seq))

\* The encoder run at rest: nothing handed to it.
EncoderIdle ==
    /\ encProgram = [rules |-> <<>>, facts |-> <<>>]
    /\ encCode = NoCode
    /\ encSymbols = EmptyObj
    /\ encPc = "idle"

NoTimer == -1

\* The debounced recompile at rest: no call made, no timer set.
DebounceIdle ==
    /\ now = 0
    /\ timeoutAt = NoTimer
    /\ treeEdits = 0
    /\ calls = <<>>
    /\ recompilations = <<>>

\* parser.parse(text) with no previous tree.
ParseFresh(text) == [input |-> text, spelled |-> text]

\* The text of the document when the editor is opened.
OpenedText == <<"a", "b">>

\* The tree store as the GraphEditor constructor leaves it.
TreeStoreInit ==
    /\ docText = OpenedText
    /\ storedTree = ParseFresh(OpenedText)
    /\ nevents = 0
    /\ lastEvent = <<>>
    /\ lastEdits = <<>>

\* A syntax node: its type, its text and its children, each child with
\* the field name it has in its parent ("" if none).
SyntaxNode(type, text, kids) == [type |-> type, text |-> text, kids |-> kids]
Kid(field, node) == [field |-> field, node |-> node]

\* The compiler at rest: an empty document, nothing compiled.
CompilerIdle ==
    /\ cst = SyntaxNode("source_file", <<>>, <<>>)
    /\ compiled = Undefined
    /\ outcome = "none"
    /\ ncompile = 0

\* The session as the GraphEditor constructor leaves it.
\* The fact store before its first call.
NoStateStep ==
    [action |-> "none", fact |-> <<>>, retry |-> FALSE, sat |-> "none", core |-> {},
     applied |-> FALSE, threw |-> FALSE, asserted |-> {}, nonUnknown |-> {},
     depthBefore |-> 0, depthAfter |-> 0]

ProgramStateIdle ==
    /\ stateFacts = <<>>
    /\ solverScopes = <<>>
    /\ solving = <<>>
    /\ stateStep = NoStateStep
    /\ nstate = 0

SessionInit ==
    /\ tree = 1
    /\ program = 0
    /\ timeout = FALSE
    /\ factAssertions = EmptyObj
    /\ inflight = <<>>
    /\ abandoned = {}
    /\ nreq = 0
    /\ nedit = 0
    /\ nfail = 0
    /\ stale = {}
    /\ last = Step("init", NoCheck, "none", NoMessage, FALSE)
    /\ episode = NoEpisode
    /\ disposed = FALSE

Init == SessionInit /\ ProgramStateIdle /\ EncoderIdle /\ DebounceIdle /\ TreeStoreInit /\ CompilerIdle

\* 'appReady': the chain of promises ends in recompile(), which sets the timer.
AppReady ==
    /\ program = 0 /\ ~timeout
    /\ timeout' = TRUE
    /\ last' = Step("appReady", NoCheck, "none", NoMessage, FALSE)
    /\ UNCHANGED <<tree, program, factAssertions, inflight, abandoned, nreq, nedit, nfail,
                   stale, episode>>

\* onDidChangeTextDocument: the tree is updated to the new text and
\* recompile() sets the timer again.
TextChange(k) ==
    /\ nedit < MaxEdits
    /\ nedit' = nedit + 1
    /\ k # tree
    /\ tree' = k
    /\ timeout' = TRUE
    /\ last' = Step("textChange", NoCheck, "none", NoMessage, FALSE)
    /\ UNCHANGED <<program, factAssertions, inflight, abandoned, nreq, nfail, stale, episode>>

\* A faulty recompile: the input of pending checks is rebuilt from the new program.
RecompileRebuildsChecks ==
    /\ timeout
    /\ timeout' = FALSE
    /\ program' = tree
    /\ stale' = {inflight[i].n : i \in 1..Len(inflight)}
    /\ inflight' = [i \in 1..Len(inflight) |->
                       [inflight[i] EXCEPT !.code = SmtCode(Documents[tree], factAssertions)]]
    /\ last' = Step("recompile", NoCheck, "none", CodeUpdated, FALSE)
    /\ UNCHANGED <<tree, factAssertions, abandoned, nreq, nedit, nfail, episode>>

\* The debounce timer fires: compile the tree, post the program.
Recompile ==
    /\ timeout
    /\ timeout' = FALSE
    /\ program' = tree
    /\ stale' = {inflight[i].n : i \in 1..Len(inflight)}
    /\ last' = Step("recompile", NoCheck, "none", CodeUpdated, FALSE)
    /\ UNCHANGED <<tree, factAssertions, inflight, abandoned, nreq, nedit, nfail, episode>>

\* 'incorporateFact': write the value, launch the consequence check.  With
\* this.program still undefined checkConsequences rejects and no
\* continuation ever runs.
IncorporateFact(descriptor, value) ==
    /\ nreq < MaxRequests
    /\ nreq' = nreq + 1
    /\ LET previousValue == Get(factAssertions, descriptor)
           assertions == AssertValue(factAssertions, descriptor, value)
           slot == IF inflight = <<>> THEN 1 ELSE Len(episode.reqs) + 1
           check == Check(nreq + 1, descriptor, value, previousValue, program,
                          assertions, slot)
           req == [descriptor |-> descriptor, value |-> value]
       IN /\ factAssertions' = assertions
          /\ inflight' = IF program = 0 THEN inflight ELSE Append(inflight, check)
          /\ last' = Step("incorporateFact", check, "none", NoMessage, FALSE)
          /\ episode' =
                IF inflight = <<>>
                THEN [base |-> factAssertions, program |-> program, reqs |-> <<req>>,
                      outs |-> <<Pending>>, clean |-> program # 0]
                ELSE [episode EXCEPT !.reqs = Append(@, req),
                                     !.outs = Append(@, Pending),
                                     !.clean = @ /\ program = episode.program]
    /\ UNCHANGED <<tree, program, timeout, abandoned, nedit, nfail, stale>>

\* stdout data arrives for the i-th pending check: the handler builds the
\* result from the live assertion hash, the continuation applies it.
Deliver(i, data) ==
    LET check == inflight[i]
        result == StdoutHandler(data, factAssertions, check.symbolsToDescriptors)
    IN /\ inflight' = Remove(inflight, i)
       /\ stale' = stale \ {check.n}
       /\ IF result.result = "throw"
          THEN /\ abandoned' = abandoned \cup {check.n}
               /\ UNCHANGED factAssertions
               /\ last' = Step("throw", check, "none", NoMessage, check.n \in stale)
               /\ episode' = [episode EXCEPT !.outs[check.slot] = "none"]
          ELSE /\ UNCHANGED abandoned
               /\ factAssertions' =
                     ContinuationAssertions(result, factAssertions, check.descriptor,
                                            check.previousValue)
               /\ last' = Step("settle", check, result.result, ContinuationPost(result),
                               check.n \in stale)
               /\ episode' = [episode EXCEPT !.outs[check.slot] = result.result]
       /\ UNCHANGED <<tree, program, timeout, nreq, nedit>>

\* The solver answers the i-th pending check.
SolverAnswers(i) ==
    /\ i \in 1..Len(inflight)
    /\ WellFormed(inflight[i].code)
    /\ Deliver(i, SolverStdout(inflight[i].code))
    /\ UNCHANGED nfail

\* The solver process writes something that starts with neither verdict.
SolverOtherOutput(i) ==
    /\ i \in 1..Len(inflight)
    /\ nfail < MaxFailures
    /\ nfail' = nfail + 1
    /\ Deliver(i, <<LineUnknown>>)

\* The solver process fails to start or ends without writing to stdout
\* (as it does on an input it cannot parse): nothing resolves the promise.
SolverExits(i) ==
    /\ i \in 1..Len(inflight)
    /\ IF WellFormed(inflight[i].code)
       THEN nfail < MaxFailures /\ nfail' = nfail + 1
       ELSE UNCHANGED nfail
    /\ LET check == inflight[i]
       IN /\ inflight' = Remove(inflight, i)
          /\ stale' = stale \ {check.n}
          /\ abandoned' = abandoned \cup {check.n}
          /\ last' = Step("exit", check, "none", NoMessage, check.n \in stale)
          /\ episode' = [episode EXCEPT !.outs[check.slot] = "none"]
    /\ UNCHANGED <<tree, program, timeout, factAssertions, nreq, nedit>>

Next ==
    \/ AppReady /\ UNCHANGED <<nonSessionVars, disposed>>
    \/ \E k \in 1..NumDocuments : TextChange(k) /\ UNCHANGED <<nonSessionVars, disposed>>
    \/ Recompile /\ UNCHANGED <<nonSessionVars, disposed>>
    \/ \E d \in Descriptors, v \in MessageValues :
           IncorporateFact(d, v) /\ UNCHANGED <<nonSessionVars, disposed>>
    \/ \E i \in 1..MaxRequests : SolverAnswers(i) /\ UNCHANGED <<nonSessionVars, disposed>>
    \/ \E i \in 1..MaxRequests : SolverOtherOutput(i) /\ UNCHANGED <<nonSessionVars, disposed>>
    \/ \E i \in 1..MaxRequests : SolverExits(i) /\ UNCHANGED <<nonSessionVars, disposed>>

Spec == Init /\ [][Next]_vars

\* ------------------------------------------------------------ properties

Settled == last.action = "settle"
Verdict == last.result \in {"sat", "unsat"}

\* The check just settled was launched with no check pending and no other
\* request arrived before it settled.
Alone == Len(episode.reqs) = 1 /\ inflight = <<>>

\* One request run alone from assertion hash S under program P: the
\* handler, the check and its continuation with nothing in between.
SerialRun(S, P, req) ==
    LET previousValue == Get(S, req.descriptor)
        assertions == AssertValue(S, req.descriptor, req.value)
        code == SmtCode(Documents[P], assertions)
    IN IF ~WellFormed(code) THEN [assertions |-> assertions, result |-> "none"]
       ELSE LET data == StdoutHandler(SolverStdout(code), assertions,
                                      SymbolsToDescriptors(Documents[P].facts))
            IN [assertions |-> ContinuationAssertions(data, assertions, req.descriptor,
                                                      previousValue),
                result |-> data.result]

SerialTwo(S, P, first, second) ==
    LET a == SerialRun(S, P, first)
        b == SerialRun(a.assertions, P, second)
    IN [assertions |-> b.assertions, first |-> a.result, second |-> b.result]

\* C1: when a request's check reports unsat, the requested descriptor's
\* entry is put back to what it was before the request: its previous value
\* (true or false), or absent if it had none.  Stated for requests handled
\* one at a time.
C1_UnsatRestoresPrevious ==
    (Settled /\ last.result = "unsat" /\ Alone)
        => Get(factAssertions, last.check.descriptor) = last.check.previousValue

\* C2: the steps of a request for descriptor d (its handler, and the
\* settlement of its check with any outcome) change no entry of the
\* assertion hash but d's.
C2_OtherEntriesUntouched ==
    [][last'.action \in {"incorporateFact", "settle", "throw", "exit"}
         => \A e \in Descriptors \ {last'.check.descriptor} :
                Get(factAssertions', e) = Get(factAssertions, e)]_vars

C2_Witness ==
    /\ Settled /\ last.result = "unsat"
    /\ \E e \in DOMAIN factAssertions : e # last.check.descriptor

\* C3: two requests of which the second is issued while the first is
\* pending end, once both have a verdict, with the assertion hash and the
\* verdicts of one of the two serial executions of the two requests.
C3_SerialOutcome ==
    ( /\ episode.clean
      /\ Len(episode.reqs) = 2
      /\ inflight = <<>>
      /\ \A k \in 1..2 : episode.outs[k] \in {"sat", "unsat"} )
    => LET s12 == SerialTwo(episode.base, episode.program, episode.reqs[1], episode.reqs[2])
           s21 == SerialTwo(episode.base, episode.program, episode.reqs[2], episode.reqs[1])
       IN \/ /\ factAssertions = s12.assertions
             /\ episode.outs[1] = s12.first
             /\ episode.outs[2] = s12.second
          \/ /\ factAssertions = s21.assertions
             /\ episode.outs[1] = s21.second
             /\ episode.outs[2] = s21.first

\* C4: the result of a check that settles after a recompilation that
\* followed its launch posts no fact update and changes no assertion.
C4_StaleResultIgnored ==
    [][(last'.action = "settle" /\ last'.stale /\ last' # last)
         => (last'.posted = NoMessage /\ factAssertions' = factAssertions)]_vars

\* C5: the solver input of every pending check is the one built from the
\* Program and the assertion hash of its launch, and neither a text change
\* nor a recompilation removes or alters a pending check.
C5_InputIsLaunchSnapshot ==
    [][ /\ \A i \in 1..Len(inflight') :
             inflight'[i].code = SmtCode(Documents[inflight'[i].launchProgram],
                                         inflight'[i].launchAssertions)
        /\ last'.action \in {"textChange", "recompile"} => inflight' = inflight ]_vars

C5_Witness ==
    \E i \in 1..Len(inflight) :
        /\ inflight[i].n \in stale
        /\ inflight[i].launchProgram # program
        /\ inflight[i].launchAssertions # factAssertions

\* C6: a check whose solver gives no verdict still completes, with an
\* outcome that is neither sat nor unsat: no check is left pending for good.
C6_NoVerdictStillCompletes == abandoned = {}

\* C7: a check that reports unsat makes the core send the webview a
\* failure signal, and no fact-value update.
C7_UnsatIsSignalled ==
    (Settled /\ last.result = "unsat")
        => last.posted.type \notin {"none", "lide.factsUpdated"}

\* The value every model of code gives constant c, "undefined" if they differ.
EntailedValue(code, c) ==
    IF \A m \in Models(code) : m[c] THEN "true"
    ELSE IF \A m \in Models(code) : ~m[c] THEN "false"
    ELSE "undefined"

\* C8: the facts of a sat check hold every descriptor of the checked
\* assertion hash with its asserted value and source 'assertion', every
\* other entailed fact with its value and source 'consequence', and no
\* asserted descriptor as a consequence.
C8_FactsReported ==
    (Settled /\ last.result = "sat")
    => LET facts == last.posted.facts
           checked == last.check.launchAssertions
           code == last.check.code
           s2d == last.check.symbolsToDescriptors
       IN /\ \A d \in DOMAIN checked :
                /\ d \in DOMAIN facts
                /\ facts[d] = [value |-> checked[d], source |-> "assertion"]
          /\ \A c \in Range(code.declare) :
                (s2d[c] \notin DOMAIN checked /\ EntailedValue(code, c) # "undefined")
                    => /\ s2d[c] \in DOMAIN facts
                       /\ facts[s2d[c]] = [value |-> EntailedValue(code, c),
                                            source |-> "consequence"]

\* The statements of a compiled program.
RECURSIVE StatementsOf(_)
StatementsOf(rules) ==
    IF rules = <<>> THEN {}
    ELSE Range(Head(rules).statements) \cup StatementsOf(Tail(rules))

RECURSIVE FactsOf(_)
FactsOf(expr) ==
    IF expr.type \in {"and_expr", "or_expr"} THEN FactsOf(expr.left) \cup FactsOf(expr.right)
    ELSE IF expr.type = "not_expr" THEN FactsOf(expr.negand)
    ELSE {expr.descriptor}

\* The truth of a source expression whose facts are all asserted.
RECURSIVE Holds(_, _)
Holds(expr, assertions) ==
    IF expr.type = "and_expr" THEN Holds(expr.left, assertions) /\ Holds(expr.right, assertions)
    ELSE IF expr.type = "or_expr" THEN Holds(expr.left, assertions) \/ Holds(expr.right, assertions)
    ELSE IF expr.type = "not_expr" THEN ~Holds(expr.negand, assertions)
    ELSE assertions[expr.descriptor] = "true"

\* The check just settled was launched with only_if statement st's source
\* facts asserted so that its source holds, and its destination is asserted
\* neither in the checked hash nor in the hash the result is reported from.
SourceAsserted(st) ==
    /\ st.type = "only_if"
    /\ FactsOf(st.src_expr) \subseteq DOMAIN last.check.launchAssertions
    /\ Holds(st.src_expr, last.check.launchAssertions)
    /\ st.dest_fact.descriptor \notin DOMAIN last.check.launchAssertions
    /\ st.dest_fact.descriptor \notin DOMAIN factAssertions

\* C9: with the facts of an only_if statement's source asserted so that
\* the source is true, the check is sat and reports dest = true as a
\* consequence.
C9_OnlyIfEntailsDest ==
    (Settled /\ Verdict /\ last.check.launchProgram # 0)
    => \A st \in StatementsOf(Documents[last.check.launchProgram].rules) :
           SourceAsserted(st)
           => /\ last.result = "sat"
              /\ st.dest_fact.descriptor \in DOMAIN last.posted.facts
              /\ last.posted.facts[st.dest_fact.descriptor] =
                     [value |-> "true", source |-> "consequence"]

C9_Witness ==
    /\ Settled /\ last.result = "sat"
    /\ last.check.launchProgram = 1
    /\ last.check.launchAssertions = (dA :> "true" @@ dB :> "true")
    /\ \E st \in StatementsOf(Documents[1].rules) : SourceAsserted(st)

\* The check just settled is the one of the request A = false made under
\* program 1 (R: only_if A and B then C) with C = true the only assertion.
AFalseAfterCTrue ==
    /\ Settled /\ Verdict
    /\ last.check.launchProgram = 1
    /\ last.check.descriptor = dA
    /\ last.check.value = "false"
    /\ last.check.previousValue = "undefined"
    /\ last.check.launchAssertions = (dC :> "true" @@ dA :> "false")

\* C10 as stated: that request is consistent, its check reports sat and
\* A = false stays in the assertion hash.
C10_AFalseAccepted ==
    AFalseAfterCTrue => (last.result = "sat" /\ Get(factAssertions, dA) = "false")

\* C10 as amended: that request is inconsistent (only_if makes C false
\* when A is false), its check reports unsat and A is absent again.
C10_AFalseRejected ==
    AFalseAfterCTrue => (last.result = "unsat" /\ dA \notin DOMAIN factAssertions)

C10_Witness ==
    /\ AFalseAfterCTrue
    /\ last.check.slot = 1
    /\ Get(factAssertions, dC) = "true"

\* C18: whatever requests were made and however their checks ended,
\* every entry of the assertion hash is true or false, and right after
\* a request with value null the descriptor has no entry.
C18_AssertionsAreBinary ==
    /\ \A d \in DOMAIN factAssertions : factAssertions[d] \in {"true", "false"}
    /\ (last.action = "incorporateFact" /\ last.check.value = "null")
            => last.check.descriptor \notin DOMAIN factAssertions

\* A retraction of an asserted fact, with another assertion left.
C18_Witness ==
    /\ last.action = "incorporateFact"
    /\ last.check.value = "null"
    /\ last.check.previousValue \in {"true", "false"}
    /\ factAssertions # EmptyObj

\* C23: the SMT input of a consequence check declares one constant per
\* fact of the Program, each once, asserts every rule formula and one
\* equality per entry of the assertion hash, the requested one
\* included, and uses no constant it does not declare: every asserted
\* descriptor is a fact of the Program the check runs against.
C23_SmtInputIsClosed ==
    (last.action = "incorporateFact" /\ last.check.launchProgram # 0) =>
        LET check == last.check
            prog == Documents[check.launchProgram]
        IN  /\ Len(check.code.declare) = Len(prog.facts)
            /\ check.code.formulas = yscriptProgramToZ3(prog)
            /\ Cardinality(check.code.equalities)
                    = Cardinality(DOMAIN check.launchAssertions)
            /\ check.value # "null" =>
                    <<sanitize(check.descriptor), check.value>>
                        \in check.code.equalities
            /\ DOMAIN check.launchAssertions \subseteq Range(prog.facts)
            /\ WellFormed(check.code)

\* C34: an incorporateFact request whose consequence check cannot be
\* run (no Program has been compiled yet, so building the solver input
\* throws) leaves the assertion set exactly as it was before the request.
C34_FailedCheckLeavesAssertions ==
    [][(nreq' = nreq + 1 /\ program = 0) => factAssertions' = factAssertions]_vars

\* The session in which the Program, once compiled, stays as it is and
\* the requests are handled one at a time: a request is sent only when a
\* Program is held and no check is pending, and the solver answers it.
NextSerial ==
    \/ AppReady /\ UNCHANGED <<nonSessionVars, disposed>>
    \/ Recompile /\ UNCHANGED <<nonSessionVars, disposed>>
    \/ \E d \in Descriptors, v \in MessageValues :
           /\ program # 0
           /\ inflight = <<>>
           /\ IncorporateFact(d, v)
           /\ UNCHANGED <<nonSessionVars, disposed>>
    \/ SolverAnswers(1) /\ UNCHANGED <<nonSessionVars, disposed>>

SpecSerial == Init /\ [][NextSerial]_vars

\* C35: with an unchanged Program and requests handled one at a time,
\* after every resolved request the assertion set is satisfiable together
\* with the rule formulas, and a retraction is never answered unsat.
C35_AssertionsStaySatisfiable ==
    /\ (program # 0 /\ inflight = <<>>)
          => Models(SmtCode(Documents[program], factAssertions)) # {}
    /\ (last.action = "settle" /\ last.check.value = "null")
          => last.result = "sat"

\* The third request of a session was answered unsat and rolled back: it
\* asked true for a fact asserted false, and other assertions remain.
C35_Witness ==
    /\ last.action = "settle"
    /\ last.result = "unsat"
    /\ last.check.n = 3
    /\ last.check.value = "true"
    /\ last.check.previousValue = "false"
    /\ DOMAIN factAssertions # {}

\* The panel is disposed: the subscriptions to change events and to
\* webview messages are disposed with it.  Neither the debounce timer
\* nor a pending consequence check is told.
Dispose ==
    /\ ~disposed
    /\ disposed' = TRUE
    /\ last' = Step("dispose", NoCheck, "none", NoMessage, FALSE)
    /\ UNCHANGED <<tree, program, timeout, factAssertions, inflight, abandoned,
                   nreq, nedit, nfail, stale, episode>>

\* The session with its disposal: the handlers of the disposed
\* subscriptions are not called any more; the timer callback and the
\* continuation of a pending check are.
NextDispose ==
    \/ ~disposed /\ AppReady /\ UNCHANGED <<nonSessionVars, disposed>>
    \/ \E k \in 1..NumDocuments :
           ~disposed /\ TextChange(k) /\ UNCHANGED <<nonSessionVars, disposed>>
    \/ Recompile /\ UNCHANGED <<nonSessionVars, disposed>>
    \/ \E d \in Descriptors, v \in MessageValues :
           /\ ~disposed
           /\ inflight = <<>>
           /\ IncorporateFact(d, v)
           /\ UNCHANGED <<nonSessionVars, disposed>>
    \/ SolverAnswers(1) /\ UNCHANGED <<nonSessionVars, disposed>>
    \/ Dispose /\ UNCHANGED nonSessionVars

SpecDispose == Init /\ [][NextDispose]_vars

\* C36: after the panel has been disposed the session does nothing
\* further: no recompilation runs and no message is posted to the
\* webview, whatever was pending at the time of disposal.
C36_NothingAfterDispose ==
    disposed => (last.action # "recompile" /\ last.posted = NoMessage)

\* ------------------------------------------------- the code builder alone

\* Nodes (connectives and facts) a source expression of an input may hold.
MaxNodes == 4

\* Descriptors of the Programs handed to the code builder; the first two
\* differ only in a character sanitize replaces.
dHasUmbrella == <<"a", " ", "b">>
dHas_Umbrella == <<"a", "_", "b">>
EncDescriptors == {dHasUmbrella, dHas_Umbrella, dC}

\* The source expressions of exactly n nodes.
RECURSIVE ExprsOfSize(_)
ExprsOfSize(n) ==
    IF n = 1 THEN {FactExpr(d) : d \in EncDescriptors}
    ELSE {NotExpr(e) : e \in ExprsOfSize(n - 1)}
         \cup UNION { UNION { {AndExpr(l, r), OrExpr(l, r)} :
                              l \in ExprsOfSize(k), r \in ExprsOfSize(n - 1 - k) } :
                      k \in 1..(n - 2) }

Exprs == UNION {ExprsOfSize(n) : n \in 1..MaxNodes}

\* The descriptors of an expression in the order a pre-order walk meets them.
RECURSIVE FactsInOrder(_)
FactsInOrder(expr) ==
    IF expr.type \in {"and_expr", "or_expr"}
    THEN FactsInOrder(expr.left) \o FactsInOrder(expr.right)
    ELSE IF expr.type = "not_expr" THEN FactsInOrder(expr.negand)
    ELSE <<expr.descriptor>>

\* seq without the repetitions of an element (keys of a JS object keep the
\* order of their first insertion).
RECURSIVE Dedup(_)
Dedup(seq) ==
    IF seq = <<>> THEN <<>>
    ELSE LET front == Dedup(SubSeq(seq, 1, Len(seq) - 1))
             x == seq[Len(seq)]
         IN IF x \in Range(front) THEN front ELSE Append(front, x)

\* The Program compileFromCst yields for a document of one rule R holding
\* the one statement st.
ProgramOf(st) ==
    [rules |-> << Rule("R", <<st>>) >>,
     facts |-> Dedup(<<st.dest_fact.descriptor>> \o FactsInOrder(st.src_expr))]

EncStatements ==
    {Statement(t, src, dest) : t \in {"only_if", "if_then"}, src \in Exprs,
                               dest \in EncDescriptors}

\* Expressions out of step with the encoder: a tag it does not know,
\* with or without a descriptor, and slots that were never filled.
OddExprs ==
    { [type |-> "xor_expr", left |-> FactExpr(dC), right |-> FactExpr(dC)],
      [type |-> "quoted_fact_expr", descriptor |-> dC],
      [type |-> "and_expr", left |-> FactExpr(dC)],
      EmptyObj,
      NotExpr([type |-> "xor_expr", left |-> FactExpr(dC), right |-> FactExpr(dC)]),
      OrExpr(FactExpr(dC), [type |-> "quoted_fact_expr", descriptor |-> dC]),
      NotExpr(EmptyObj) }

\* Statements with such an expression, with no src_expr at all, or
\* with a tag of their own that the encoder does not know.
OddStatements ==
    {Statement(t, src, dC) : t \in {"only_if", "if_then"}, src \in OddExprs}
        \cup {[type |-> t, dest_fact |-> [descriptor |-> dC]] :
                    t \in {"only_if", "if_then"}}
        \cup {Statement("unless", FactExpr(dC), dC)}

OddProgramOf(st) == [rules |-> << Rule("R", <<st>>) >>, facts |-> <<dC>>]

InitEncoder ==
    /\ SessionInit
    /\ ProgramStateIdle
    /\ DebounceIdle
    /\ TreeStoreInit
    /\ CompilerIdle
    /\ encProgram \in {ProgramOf(st) : st \in EncStatements}
                        \cup {OddProgramOf(st) : st \in OddStatements}
    /\ encCode = NoCode
    /\ encSymbols = EmptyObj
    /\ encPc = "start"

\* The map over Object.keys(program.facts): one declare-const per key, and
\* symbolsToDescriptors filled along the way.
DeclareConstants ==
    /\ encPc = "start"
    /\ encCode' = [encCode EXCEPT
                      !.declare = [i \in 1..Len(encProgram.facts) |->
                                      yscriptExprToZ3(
                                          [descriptor |-> encProgram.facts[i]]).name]]
    /\ encSymbols' = SymbolsToDescriptors(encProgram.facts)
    /\ encPc' = "declared"
    /\ UNCHANGED <<encProgram, sessionVars, stateVars, debounceVars, treeVars, compilerVars>>

\* code += yscriptProgramToZ3(program).map(assert); a throw of the
\* encoder leaves checkConsequences with nothing written.
AssertFormulas(formulas) ==
    IF Raised \in Range(formulas)
    THEN encPc' = "error" /\ encCode' = encCode
    ELSE encPc' = "asserted" /\ encCode' = [encCode EXCEPT !.formulas = formulas]

AssertProgram ==
    /\ encPc = "declared"
    /\ AssertFormulas(yscriptProgramToZ3(encProgram))
    /\ UNCHANGED <<encProgram, encSymbols, sessionVars, stateVars, debounceVars, treeVars, compilerVars>>

NextEncoder == DeclareConstants \/ AssertProgram

SpecEncoder == InitEncoder /\ [][NextEncoder]_vars

\* The statement of the Program handed to the code builder.
EncStatement == encProgram.rules[1].statements[1]

\* The valuations of the constants of the statement.
EncValuations == [{sanitize(d) : d \in EncDescriptors} -> BOOLEAN]

\* The truth of a source expression when each fact has the value val gives
\* the constant named after it.
RECURSIVE ExprValue(_, _)
ExprValue(expr, val) ==
    IF expr.type = "and_expr" THEN ExprValue(expr.left, val) /\ ExprValue(expr.right, val)
    ELSE IF expr.type = "or_expr" THEN ExprValue(expr.left, val) \/ ExprValue(expr.right, val)
    ELSE IF expr.type = "not_expr" THEN ~ExprValue(expr.negand, val)
    ELSE val[sanitize(expr.descriptor)]

DestValue(st, val) == val[sanitize(st.dest_fact.descriptor)]

\* C11: an only_if statement is encoded as exactly two formulas, the first
\* with the truth table of src => dest and the second with that of
\* (not src) => (not dest); together they hold exactly when dest <=> src.
C11_OnlyIfIsBiconditional ==
    (encPc = "asserted" /\ EncStatement.type = "only_if")
    => /\ Len(encCode.formulas) = 2
       /\ \A val \in EncValuations :
             LET src == ExprValue(EncStatement.src_expr, val)
                 dest == DestValue(EncStatement, val)
             IN /\ Eval(encCode.formulas[1], val) = (src => dest)
                /\ Eval(encCode.formulas[2], val) = (~src => ~dest)
                /\ (\A i \in 1..2 : Eval(encCode.formulas[i], val)) = (dest <=> src)

C11_Witness ==
    /\ encPc = "asserted"
    /\ EncStatement.type = "only_if"
    /\ EncStatement.src_expr.type = "not_expr"
    /\ EncStatement.src_expr.negand.type = "or_expr"
    /\ EncStatement.dest_fact.descriptor \notin Range(FactsInOrder(EncStatement.src_expr))

\* C12: an if_then statement is encoded as one formula with the truth
\* table of src => dest, so every valuation that makes src false satisfies
\* it whatever value it gives dest.
C12_IfThenIsSufficiencyOnly ==
    (encPc = "asserted" /\ EncStatement.type = "if_then")
    => /\ Len(encCode.formulas) = 1
       /\ \A val \in EncValuations :
             LET src == ExprValue(EncStatement.src_expr, val)
                 dest == DestValue(EncStatement, val)
             IN /\ Eval(encCode.formulas[1], val) = (src => dest)
                /\ ~src => Eval(encCode.formulas[1], val)

\* An if_then statement is encoded and its source can be false with its
\* destination true and with its destination false.
C12_Witness ==
    /\ encPc = "asserted"
    /\ EncStatement.type = "if_then"
    /\ EncStatement.src_expr.type = "and_expr"
    /\ \E v1, v2 \in EncValuations :
          /\ ~ExprValue(EncStatement.src_expr, v1) /\ DestValue(EncStatement, v1)
          /\ ~ExprValue(EncStatement.src_expr, v2) /\ ~DestValue(EncStatement, v2)

\* C13: two distinct descriptors of a Program never get the same constant,
\* and symbolsToDescriptors maps each constant back to the descriptor it
\* was made from.
C13_ConstantsAreDistinct ==
    (encPc # "start")
    => /\ \A i, j \in 1..Len(encProgram.facts) :
             encCode.declare[i] = encCode.declare[j] => i = j
       /\ \A d \in Range(encProgram.facts) : encSymbols[sanitize(d)] = d

\* ------------------------------------------------ the debounced recompile

ConnectiveTypes == {"and_expr", "or_expr", "not_expr"}

\* An expression with a node whose type is none of and_expr, or_expr,
\* not_expr, fact_expr, an unfilled slot included.
RECURSIVE HasUnknownTag(_)
HasUnknownTag(expr) ==
    \/ "undefined" \in DOMAIN expr
    \/ Get(expr, "type") \notin ConnectiveTypes \cup {"fact_expr"}
    \/ /\ Get(expr, "type") \in {"and_expr", "or_expr"}
       /\ (HasUnknownTag(Field(expr, "left")) \/ HasUnknownTag(Field(expr, "right")))
    \/ Get(expr, "type") = "not_expr" /\ HasUnknownTag(Field(expr, "negand"))

\* C21: the encoder raises an error for a statement whose type is
\* neither if_then nor only_if and for a source expression with a node
\* of unknown type or an unfilled slot; it asserts no formula for it.
C21_UnknownTagsRaise ==
    (/\ encPc \in {"asserted", "error"}
     /\ \/ EncStatement.type \notin {"if_then", "only_if"}
        \/ HasUnknownTag(Field(EncStatement, "src_expr")))
        => (encPc = "error" /\ encCode.formulas = <<>>)

\* The wait of the debounce (100 ms in the code), in ticks.
Wait == 2

\* The last tick of a behaviour.
MaxTime == 8

\* Calls of recompile() one behaviour may hold.
MaxCalls == 3

\* debounce's third parameter, left at its default by the GraphEditor.
ImmediateTrue == TRUE
Immediate == FALSE

\* A faulty debounce: a timer already set is kept, not replaced.
KeepsFirstTimer(t) == IF timeoutAt # NoTimer THEN timeoutAt ELSE t + Wait

\* clearTimeout(timeout); timeout = setTimeout(later, wait), at time t.
ResetTimer(t) == t + Wait

\* f: compile the tree as it is now and post the Program.
RunRecompile(log) ==
    Append(log, [at |-> now, tree |-> treeEdits', ncalls |-> Len(calls')])

\* The function debounce returns, called from handler kind.
DebouncedCall(kind) ==
    /\ Len(calls) < MaxCalls
    /\ calls' = Append(calls, [at |-> now, kind |-> kind])
    /\ timeoutAt' = ResetTimer(now)
    /\ recompilations' =
          IF Immediate /\ timeoutAt = NoTimer THEN RunRecompile(recompilations)
          ELSE recompilations
    /\ UNCHANGED now

\* onDidChangeTextDocument: the changes are applied to the tree, then
\* recompile() is called.
ChangeEvent ==
    /\ treeEdits' = treeEdits + 1
    /\ DebouncedCall("change")
    /\ UNCHANGED <<sessionVars, stateVars, encoderVars, treeVars, compilerVars>>

\* 'appReady': the chain of promises ends in a call of recompile().
AppReadyRecompile ==
    /\ UNCHANGED treeEdits
    /\ DebouncedCall("appReady")
    /\ UNCHANGED <<sessionVars, stateVars, encoderVars, treeVars, compilerVars>>

\* later: the timer is due and runs.
Later ==
    /\ timeoutAt # NoTimer
    /\ now = timeoutAt
    /\ timeoutAt' = NoTimer
    /\ UNCHANGED <<now, treeEdits, calls>>
    /\ recompilations' =
          IF ~Immediate THEN RunRecompile(recompilations) ELSE recompilations
    /\ UNCHANGED <<sessionVars, stateVars, encoderVars, treeVars, compilerVars>>

\* Time passes; a timer that is due runs before the next tick.
Tick ==
    /\ now < MaxTime \/ timeoutAt # NoTimer
    /\ timeoutAt = NoTimer \/ now < timeoutAt
    /\ now' = now + 1
    /\ UNCHANGED <<timeoutAt, treeEdits, calls, recompilations>>
    /\ UNCHANGED <<sessionVars, stateVars, encoderVars, treeVars, compilerVars>>

InitDebounce ==
    SessionInit /\ ProgramStateIdle /\ EncoderIdle /\ DebounceIdle /\ TreeStoreInit /\ CompilerIdle

NextDebounce == ChangeEvent \/ AppReadyRecompile \/ Later \/ Tick

SpecDebounce == InitDebounce /\ [][NextDebounce]_vars

\* The calls of log made from handler kind, in order.
CallsOf(log, kind) == SelectSeq(log, LAMBDA c : c.kind = kind)

\* The least and the greatest number of bursts the call times ts fall into:
\* a gap below the wait joins two calls, a gap above it separates them, and
\* at a gap of exactly the wait either the timer or the call runs first.
MinBursts(ts) ==
    IF ts = <<>> THEN 0
    ELSE 1 + Cardinality({k \in 1..(Len(ts) - 1) : ts[k + 1].at - ts[k].at > Wait})

MaxBursts(ts) ==
    IF ts = <<>> THEN 0
    ELSE 1 + Cardinality({k \in 1..(Len(ts) - 1) : ts[k + 1].at - ts[k].at >= Wait})

\* The recompilations run and the one the pending timer stands for.
RunsAndPending(runs) == Len(runs) + (IF timeoutAt # NoTimer THEN 1 ELSE 0)

\* C14 as stated, over the change events alone: every recompilation after
\* a change event runs one wait after the last change event before it and
\* compiles the tree with every change so far applied, and the change
\* events cause one recompilation per burst.
C14_DebounceOverChangeEvents ==
    LET changes == CallsOf(calls, "change")
        runs == SelectSeq(recompilations, LAMBDA r : r.tree >= 1)
    IN /\ \A i \in 1..Len(runs) :
             /\ runs[i].at = changes[runs[i].tree].at + Wait
             /\ runs[i].tree = Len(CallsOf(SubSeq(calls, 1, runs[i].ncalls), "change"))
       /\ (timeoutAt = NoTimer /\ changes # <<>>)
              => (MinBursts(changes) <= Len(runs) /\ Len(runs) <= MaxBursts(changes))

\* C14 as amended, over every call of recompile(): every recompilation
\* runs one wait after the last call before it, never at the time of a call
\* unless a wait has passed, and compiles the tree with every change event
\* so far applied; the calls cause one recompilation per burst.
C14_DebounceOverCalls ==
    /\ \A i \in 1..Len(recompilations) :
          LET r == recompilations[i]
          IN /\ r.ncalls >= 1
             /\ r.at = calls[r.ncalls].at + Wait
             /\ r.tree = Len(CallsOf(SubSeq(calls, 1, r.ncalls), "change"))
    /\ MinBursts(calls) <= RunsAndPending(recompilations)
    /\ RunsAndPending(recompilations) <= MaxBursts(calls)

\* Two change events less than a wait apart, their one recompilation, a
\* third change event more than a wait after the second, and its own
\* recompilation of the tree with all three changes.
C14_Witness ==
    /\ Len(calls) = 3
    /\ \A k \in 1..3 : calls[k].kind = "change"
    /\ calls[2].at - calls[1].at < Wait
    /\ calls[2].at > calls[1].at
    /\ calls[3].at - calls[2].at > Wait
    /\ Len(recompilations) = 2
    /\ recompilations[1].tree = 2
    /\ recompilations[2].tree = 3
    /\ timeoutAt = NoTimer

\* --------------------------------------------------- the syntax tree store

\* Characters a document may hold.
MaxText == 3

\* Content changes one change event may hold.
MaxChanges == 2

\* Change events one behaviour may hold.
MaxEvents == 2

Min(a, b) == IF a < b THEN a ELSE b

Position(line, character) == [line |-> line, character |-> character]

\* text.split(/\r\n|\r|\n/), from index i on; cur is the line being read.
RECURSIVE SplitLinesFrom(_, _, _, _)
SplitLinesFrom(text, i, cur, acc) ==
    IF i > Len(text) THEN Append(acc, cur)
    ELSE IF text[i] = "\r" /\ i < Len(text) /\ text[i + 1] = "\n"
    THEN SplitLinesFrom(text, i + 2, <<>>, Append(acc, cur))
    ELSE IF text[i] \in {"\r", "\n"}
    THEN SplitLinesFrom(text, i + 1, <<>>, Append(acc, cur))
    ELSE SplitLinesFrom(text, i + 1, Append(cur, text[i]), acc)

SplitLines(text) == SplitLinesFrom(text, 1, <<>>, <<>>)

\* The length of regex.exec(text)[0]: the first line terminator of text, 0
\* if it has none.
EolLength(text) ==
    LET at == {i \in 1..Len(text) : text[i] \in {"\r", "\n"}}
    IN IF at = {} THEN 0
       ELSE LET i == CHOOSE j \in at : \A k \in at : j <= k
            IN IF text[i] = "\r" /\ i < Len(text) /\ text[i + 1] = "\n" THEN 2 ELSE 1

\* The sum of lines[i].length + eol.length over the first n lines.
RECURSIVE LinesLength(_, _, _)
LinesLength(lines, eol, n) ==
    IF n = 0 THEN 0 ELSE LinesLength(lines, eol, n - 1) + Len(lines[n]) + eol

getIndicesFromRange(range, text) ==
    LET lines == SplitLines(text)
        eol == EolLength(text)
    IN << range.start.character + LinesLength(lines, eol, Min(range.start.line, range.end.line)),
          range.end.character + LinesLength(lines, eol, range.end.line) >>

textToPosition(text) ==
    LET lines == SplitLines(text)
    IN Position(Len(lines) - 1, Len(lines[Len(lines)]))

addPositions(pos1, pos2) ==
    Position(pos1.line + pos2.line, pos1.character + pos2.character)

toTSPoint(position) == [row |-> position.line, column |-> position.character]

getEditFromChange(change, text) ==
    LET indices == getIndicesFromRange(change.range, text)
    IN [ startIndex |-> indices[1],
         oldEndIndex |-> indices[2],
         newEndIndex |-> indices[1] + Len(change.text),
         startPosition |-> toTSPoint(change.range.start),
         oldEndPosition |-> toTSPoint(change.range.end),
         newEndPosition |-> toTSPoint(addPositions(change.range.start,
                                                   textToPosition(change.text))) ]

\* The mark of a stretch of the tree an edit has invalidated.
Dirty == "?"

\* tree.edit(edit): the nodes between startIndex and oldEndIndex are
\* invalidated and stand for newEndIndex - startIndex characters, the nodes
\* after them move with the text.
TreeEdit(oldTree, edit) ==
    LET cells == oldTree.spelled
        start == Min(edit.startIndex, Len(cells))
        oldEnd == Min(edit.oldEndIndex, Len(cells))
    IN [oldTree EXCEPT !.spelled =
            SubSeq(cells, 1, start)
            \o [i \in 1..(edit.newEndIndex - edit.startIndex) |-> Dirty]
            \o SubSeq(cells, oldEnd + 1, Len(cells))]

\* The parse that keeps every node the edits left valid where it is and
\* reads the text only for the rest.
Reuse(fullText, oldTree) ==
    [input |-> fullText,
     spelled |-> [i \in 1..Len(fullText) |->
                     IF i <= Len(oldTree.spelled) /\ oldTree.spelled[i] # Dirty
                     THEN oldTree.spelled[i] ELSE fullText[i]]]

\* parser.parse(fullText, oldTree): the tree of fullText when oldTree was edited
\* to match fullText; otherwise the tree of fullText or the one built from
\* the nodes kept.
Parse(fullText, oldTree) == {ParseFresh(fullText), Reuse(fullText, oldTree)}


\* updateCst(fullText, change): the trees it may leave in this.tree.
updateCst(oldTree, fullText, change) ==
    Parse(fullText, TreeEdit(oldTree, getEditFromChange(change, oldTree.input)))

\* for (const change of evt.contentChanges) updateCst(evt.document.getText(),
\* change), from change k on: the trees the loop may end with.
RECURSIVE UpdateAll(_, _, _, _)
UpdateAll(oldTree, fullText, changes, k) ==
    IF k > Len(changes) THEN {oldTree}
    ELSE UNION {UpdateAll(t, fullText, changes, k + 1) :
                   t \in updateCst(oldTree, fullText, changes[k])}

\* The edits the loop hands to this.tree.edit, in order; the text each is
\* computed against is the one last parsed.
EditsOf(oldTree, fullText, changes) ==
    [k \in 1..Len(changes) |->
        getEditFromChange(changes[k], IF k = 1 THEN oldTree.input ELSE fullText)]

Alphabet == {"a", "b"}
Replacements == {<<>>} \cup {<<c>> : c \in Alphabet}

\* The replacements of a stretch of a one-line text by a replacement text.
ChangesOf(text) ==
    {[range |-> [start |-> Position(0, s), end |-> Position(0, e)], text |-> t] :
        s \in 0..Len(text), e \in 0..Len(text), t \in Replacements}

Disjoint(c1, c2) ==
    \/ c1.range.end.character <= c2.range.start.character
       /\ c1.range.start.character < c2.range.start.character
    \/ c2.range.end.character <= c1.range.start.character
       /\ c2.range.start.character < c1.range.start.character

\* The contentChanges an event on text may carry: each replaces a stretch
\* of text, no two touch the same stretch, none is void.
EventsOf(text) ==
    LET real == {c \in ChangesOf(text) :
                    /\ c.range.start.character <= c.range.end.character
                    /\ ~(c.range.start.character = c.range.end.character /\ c.text = <<>>)}
    IN {<<>>} \cup {<<c>> : c \in real}
       \cup {pair \in real \X real : Disjoint(pair[1], pair[2])}

ApplyChange(text, c) ==
    SubSeq(text, 1, c.range.start.character) \o c.text
    \o SubSeq(text, c.range.end.character + 1, Len(text))

\* The text of the document after the changes of an event: the later
\* stretch is replaced first, so the earlier one keeps its place.
ApplyChanges(text, changes) ==
    IF Len(changes) = 0 THEN text
    ELSE IF Len(changes) = 1 THEN ApplyChange(text, changes[1])
    ELSE LET first == IF changes[1].range.start.character > changes[2].range.start.character
                      THEN changes[1] ELSE changes[2]
             second == IF first = changes[1] THEN changes[2] ELSE changes[1]
         IN ApplyChange(ApplyChange(text, first), second)

\* onDidChangeTextDocument for this document: every content change goes
\* through updateCst with the full text of the event.
TreeChangeEvent(changes) ==
    /\ nevents < MaxEvents
    /\ Len(changes) <= MaxChanges
    /\ LET fullText == ApplyChanges(docText, changes)
       IN /\ Len(fullText) <= MaxText
          /\ docText' = fullText
          /\ storedTree' \in UpdateAll(storedTree, fullText, changes, 1)
          /\ lastEdits' = EditsOf(storedTree, fullText, changes)
    /\ lastEvent' = changes
    /\ nevents' = nevents + 1
    /\ UNCHANGED <<sessionVars, stateVars, encoderVars, debounceVars, compilerVars>>

InitTreeStore ==
    SessionInit /\ ProgramStateIdle /\ EncoderIdle /\ DebounceIdle /\ TreeStoreInit /\ CompilerIdle

NextTreeStore == \E changes \in EventsOf(docText) : TreeChangeEvent(changes)

SpecTreeStore == InitTreeStore /\ [][NextTreeStore]_vars

\* C15: the edits of an event reach the tree in the order of its content
\* changes, and after every handled change event the stored tree is the
\* parse of the document's text as of that event.
C15_TreeFollowsDocument ==
    /\ Len(lastEdits) = Len(lastEvent)
    /\ \A k \in 1..Len(lastEvent) :
          /\ lastEdits[k].startIndex = lastEvent[k].range.start.character
          /\ lastEdits[k].oldEndIndex = lastEvent[k].range.end.character
    /\ storedTree = ParseFresh(docText)

\* ---------------------------------------------------------------------
\* The compiler: from the syntax tree to the Program.
\* A node is identified by its position: the child positions on the way
\* from the root. Property names and array indices are strings, as they
\* are in a JavaScript object, so a path is a sequence of strings.
\* ---------------------------------------------------------------------

MaxStatements == 2      \* statements in one document, at most
MaxCompiles == 2        \* runs of recompile on one document, at most

RECURSIVE NodeAt(_, _)
NodeAt(root, id) ==
    IF id = <<>> THEN root ELSE NodeAt(root.kids[Head(id)].node, Tail(id))

\* node.children, node.parent, and null for "no node".
Children(root, id) == [k \in 1..Len(NodeAt(root, id).kids) |-> Append(id, k)]
Parent(id) == SubSeq(id, 1, Len(id) - 1)
NoNode == <<0>>

childForFieldName(root, id, field) ==
    LET kids == NodeAt(root, id).kids
        hits == {k \in 1..Len(kids) : kids[k].field = field}
    IN  IF hits = {} THEN NoNode
        ELSE Append(id, CHOOSE k \in hits : \A j \in hits : k <= j)

\* The keys of the first array slots: "0" is slot 1 of a sequence.
IndexKeys == <<"0", "1", "2", "3", "4", "5", "6", "7">>

\* A faulty filter: rule_body nodes are kept too.
InterestingAndRuleBody ==
    {"and_expr", "or_expr", "not_expr", "if_then", "only_if", "rule_definition",
     "rule_body"}

Interesting ==
    {"and_expr", "or_expr", "not_expr", "if_then", "only_if", "rule_definition"}

\* The loop of findLineage: every node from currentNode up to the root
\* is put in front of the lineage.
RECURSIVE Unshifted(_, _)
Unshifted(currentNode, lineage) ==
    IF currentNode = <<>> THEN <<currentNode>> \o lineage
    ELSE Unshifted(Parent(currentNode), <<currentNode>> \o lineage)

findLineage(root, id) ==
    LET keep(n) == n = id \/ NodeAt(root, n).type \in Interesting
    IN  SelectSeq(Unshifted(id, <<>>), keep)

\* What a throw leaves in place of a segment.
Throws == "!throw"

\* A faulty tie-break: the operand is told by its value, not by which
\* node it is.
OperandSlotByValue(root, parent, current) ==
    LET kids == Children(root, parent)
    IN  IF NodeAt(root, kids[1]) = NodeAt(root, current) THEN "left"
        ELSE IF Len(kids) < 3 THEN Throws
        ELSE IF NodeAt(root, kids[3]) = NodeAt(root, current) THEN "right"
        ELSE Throws

\* An operand in neither slot taken for the right one.
OperandSlotGuessed(root, parent, current) ==
    IF Children(root, parent)[1] = current THEN "left" ELSE "right"

\* The operand slot of `current` in the connective `parent`: the first
\* child is left, the third is right, anything else throws.
OperandSlot(root, parent, current) ==
    LET kids == Children(root, parent)
    IN  IF kids[1] = current THEN "left"
        ELSE IF Len(kids) < 3 THEN Throws
        ELSE IF kids[3] = current THEN "right"
        ELSE Throws

\* The segments lineage[i] contributes to the path: none or one.
Segments(root, lineage, i) ==
    LET currentNode == lineage[i]
        type == NodeAt(root, currentNode).type
    IN  IF type = "rule_definition"
        THEN LET nameNode == childForFieldName(root, currentNode, "name")
             IN  IF nameNode = NoNode THEN <<"undefined">>
                 ELSE <<NodeAt(root, nameNode).text>>
        ELSE IF type \in {"if_then", "only_if"}
        THEN IF currentNode = <<>> THEN <<"undefined">>
             ELSE <<IndexKeys[currentNode[Len(currentNode)]]>>
        ELSE IF type \in {"and_expr", "or_expr", "not_expr", "fact_expr"}
        THEN IF i = 1 THEN <<Throws>>
             ELSE LET parentNode == lineage[i - 1]
                      parentType == NodeAt(root, parentNode).type
                  IN  IF parentType \in {"if_then", "only_if"} THEN <<"src_expr">>
                      ELSE IF parentType \in {"and_expr", "or_expr"}
                      THEN <<OperandSlot(root, parentNode, currentNode)>>
                      ELSE IF parentType = "not_expr" THEN <<"negand">>
                      ELSE <<>>
        ELSE <<>>

RECURSIVE SegmentsFrom(_, _, _)
SegmentsFrom(root, lineage, i) ==
    IF i > Len(lineage) THEN <<>>
    ELSE Segments(root, lineage, i) \o SegmentsFrom(root, lineage, i + 1)

lineageToPath(root, lineage) ==
    LET path == SegmentsFrom(root, lineage, 1)
    IN  [threw |-> Throws \in Range(path), path |-> path]

\* A faulty successor: after the last child the cursor does not climb to
\* the parent.
NextSiblingOnly(root, id) ==
    IF id = <<>> THEN [moved |-> FALSE, at |-> id]
    ELSE IF id[Len(id)] < Len(NodeAt(root, Parent(id)).kids)
    THEN [moved |-> TRUE, at |-> Append(Parent(id), id[Len(id)] + 1)]
    ELSE [moved |-> FALSE, at |-> id]

\* cursor.gotoNextSibling(), else cursor.gotoParent(), until one moves.
RECURSIVE NextSiblingOrUp(_, _)
NextSiblingOrUp(root, id) ==
    IF id = <<>> THEN [moved |-> FALSE, at |-> id]
    ELSE IF id[Len(id)] < Len(NodeAt(root, Parent(id)).kids)
    THEN [moved |-> TRUE, at |-> Append(Parent(id), id[Len(id)] + 1)]
    ELSE NextSiblingOrUp(root, Parent(id))

gotoPreorderSucc(root, id) ==
    IF Len(NodeAt(root, id).kids) > 0
    THEN [moved |-> TRUE, at |-> Append(id, 1)]
    ELSE NextSiblingOrUp(root, id)

\* The program an aborted compile leaves behind: none.
Thrown == [threw |-> TRUE]
IsThrown(result) == "threw" \in DOMAIN result

\* A compile that starts from the rules of the run before.
ProgramKeptAcrossRuns ==
    IF compiled = Undefined THEN [rules |-> <<>>, facts |-> <<>>]
    ELSE [rules |-> compiled.rules, facts |-> <<>>]

\* The program compileFromCst starts from when it is given none.
FreshProgram == [rules |-> <<>>, facts |-> <<>>]

createFact(descriptor) ==
    [descriptor |-> descriptor, determiners |-> <<>>, requirers |-> <<>>]

\* program.rules[key] and statements[key] as positions; 0 is undefined.
RuleAt(prog, key) ==
    LET hits == {i \in 1..Len(prog.rules) : prog.rules[i].name = key}
    IN  IF hits = {} THEN 0 ELSE CHOOSE i \in hits : TRUE

StatementAt(statements, key) ==
    LET hits == {k \in 1..Len(statements) : IndexKeys[k] = key}
    IN  IF hits = {} THEN 0 ELSE CHOOSE k \in hits : TRUE

FactAt(prog, descriptor) ==
    LET hits == {i \in 1..Len(prog.facts) :
                    prog.facts[i].descriptor = descriptor}
    IN  IF hits = {} THEN 0 ELSE CHOOSE i \in hits : TRUE

\* program.facts[descriptor] = program.facts[descriptor] || createFact()
EnsureFact(prog, descriptor) ==
    IF FactAt(prog, descriptor) # 0 THEN prog
    ELSE [prog EXCEPT !.facts = Append(@, createFact(descriptor))]

Merge(obj, fields) ==
    [x \in DOMAIN obj \cup DOMAIN fields |->
        IF x \in DOMAIN fields THEN fields[x] ELSE obj[x]]

\* ensureGetIn(root, path) followed by the assignment of `fields` on
\* the object it returns.
RECURSIVE ensureGetIn(_, _, _)
ensureGetIn(root, path, fields) ==
    IF path = <<>> THEN Merge(root, fields)
    ELSE LET ensured == IF Head(path) \in DOMAIN root
                        THEN root[Head(path)] ELSE EmptyObj
         IN  Assign(root, Head(path), ensureGetIn(ensured, Tail(path), fields))

\* ensureGetIn(requirers, [ruleName, statementIdx]) on the hierarchy
\* { rule: { idx: {} } }, kept as rule keys in insertion order.
EnsureRequirer(requirers, ruleName, statementIdx) ==
    LET hits == {i \in 1..Len(requirers) : requirers[i].rule = ruleName}
    IN  IF hits = {}
        THEN Append(requirers, [rule |-> ruleName, idxs |-> {statementIdx}])
        ELSE [i \in 1..Len(requirers) |->
                IF i \in hits
                THEN [requirers[i] EXCEPT !.idxs = @ \cup {statementIdx}]
                ELSE requirers[i]]

Segment(path, i) == IF i <= Len(path) THEN path[i] ELSE "undefined"
ExprPath(path) == IF Len(path) <= 2 THEN <<>> ELSE SubSeq(path, 3, Len(path))

VisitRule(root, id, prog) ==
    LET nameNode == childForFieldName(root, id, "name")
        ruleName == NodeAt(root, nameNode).text
        at == RuleAt(prog, ruleName)
    IN  IF nameNode = NoNode THEN Thrown
        ELSE IF at = 0
        THEN [prog EXCEPT !.rules =
                Append(@, [name |-> ruleName, statements |-> <<>>,
                           nameRange |-> nameNode, range |-> id])]
        ELSE [prog EXCEPT !.rules[at].nameRange = nameNode,
                             !.rules[at].range = id]

VisitStatement(root, id, prog) ==
    LET destFactNode == childForFieldName(root, id, "dest_fact")
        descriptor == NodeAt(root, destFactNode).text
        destPath == lineageToPath(root, findLineage(root, destFactNode))
        withFact == EnsureFact(prog, descriptor)
        fact == FactAt(withFact, descriptor)
        determined ==
            [withFact EXCEPT !.facts[fact].determiners =
                Append(@, [path |-> SubSeq(destPath.path, 1,
                                           Min(2, Len(destPath.path))),
                           position |-> id])]
        lineage == findLineage(root, id)
        rules == {i \in 1..Len(lineage) :
                    NodeAt(root, lineage[i]).type = "rule_definition"}
        ancestorRule == lineage[CHOOSE i \in rules : \A j \in rules : i <= j]
        nameNode == childForFieldName(root, ancestorRule, "name")
        ancestorRuleName == NodeAt(root, nameNode).text
        at == RuleAt(determined, ancestorRuleName)
    IN  IF destFactNode = NoNode THEN Thrown
        ELSE IF destPath.threw THEN Thrown
        ELSE IF rules = {} THEN Thrown
        ELSE IF nameNode = NoNode \/ ancestorRuleName = "" THEN Thrown
        ELSE IF at = 0 THEN Thrown
        ELSE [determined EXCEPT !.rules[at].statements =
                Append(@, [type |-> NodeAt(root, id).type,
                           dest_fact |-> [descriptor |-> descriptor,
                                          range |-> destFactNode]])]

VisitConnective(root, id, prog) ==
    LET found == lineageToPath(root, findLineage(root, id))
        ruleName == Segment(found.path, 1)
        statementIdx == Segment(found.path, 2)
        exprPath == ExprPath(found.path)
        at == RuleAt(prog, ruleName)
        k == StatementAt(prog.rules[at].statements, statementIdx)
    IN  IF found.threw THEN Thrown
        ELSE IF at = 0 THEN Thrown
        ELSE IF exprPath = <<>> THEN Thrown
        ELSE IF k = 0 THEN Thrown
        ELSE [prog EXCEPT !.rules[at].statements[k] =
                ensureGetIn(@, exprPath, [type |-> NodeAt(root, id).type])]

VisitFact(root, id, prog) ==
    LET descriptor == NodeAt(root, id).text
        found == lineageToPath(root, findLineage(root, id))
        ruleName == Segment(found.path, 1)
        statementIdx == Segment(found.path, 2)
        exprPath == ExprPath(found.path)
        withFact == EnsureFact(prog, descriptor)
        fact == FactAt(withFact, descriptor)
        required ==
            [withFact EXCEPT !.facts[fact].requirers =
                EnsureRequirer(@, ruleName, statementIdx)]
        at == RuleAt(required, ruleName)
        k == StatementAt(required.rules[at].statements, statementIdx)
    IN  IF found.threw THEN Thrown
        ELSE IF at = 0 THEN Thrown
        ELSE IF k = 0 THEN Thrown
        ELSE [required EXCEPT !.rules[at].statements[k] =
                ensureGetIn(@, exprPath,
                            [type |-> "fact_expr", descriptor |-> descriptor,
                             range |-> id])]

\* The switch on currentNode.type.
Visit(root, id, prog) ==
    LET type == NodeAt(root, id).type
    IN  IF type = "rule_definition" THEN VisitRule(root, id, prog)
        ELSE IF type \in {"if_then", "only_if"}
        THEN VisitStatement(root, id, prog)
        ELSE IF type \in {"and_expr", "or_expr", "not_expr"}
        THEN VisitConnective(root, id, prog)
        ELSE IF type = "fact_expr" THEN VisitFact(root, id, prog)
        ELSE prog

\* The do-while loop, from the node the cursor is on: the visit of the
\* node, then the move to its successor if nothing was thrown.
RECURSIVE Walk(_, _, _)
RECURSIVE WalkOn(_, _, _)
Walk(root, id, prog) == WalkOn(root, id, Visit(root, id, prog))
WalkOn(root, id, visited) ==
    LET succ == gotoPreorderSucc(root, id)
    IN  IF IsThrown(visited) THEN visited
        ELSE IF succ.moved THEN Walk(root, succ.at, visited)
        ELSE visited

\* The statement indices of one rule of the hierarchy, ascending.
RECURSIVE IdxsAscending(_, _)
IdxsAscending(idxs, k) ==
    IF k > Len(IndexKeys) THEN <<>>
    ELSE (IF IndexKeys[k] \in idxs THEN <<IndexKeys[k]>> ELSE <<>>)
            \o IdxsAscending(idxs, k + 1)

RECURSIVE FlatRequirers(_, _)
FlatRequirers(requirers, i) ==
    IF i > Len(requirers) THEN <<>>
    ELSE LET idxs == IdxsAscending(requirers[i].idxs, 1)
         IN  [k \in 1..Len(idxs) |-> [path |-> <<requirers[i].rule, idxs[k]>>]]
                \o FlatRequirers(requirers, i + 1)

Flatten(prog) ==
    [prog EXCEPT !.facts =
        [i \in 1..Len(prog.facts) |->
            [prog.facts[i] EXCEPT !.requirers = FlatRequirers(@, 1)]]]

FlattenUnlessThrown(walked) ==
    IF IsThrown(walked) THEN walked ELSE Flatten(walked)

compileFromCst(root, prog) == FlattenUnlessThrown(Walk(root, <<>>, prog))

\* ---- The documents the compiler is given ----

Token(word) == SyntaxNode(word, <<>>, <<>>)
FactNode(d) == SyntaxNode("fact_expr", d, <<>>)
DestNode(d) == SyntaxNode("descriptor", d, <<>>)
BinaryNode(type, left, right) ==
    SyntaxNode(type, <<>>, <<Kid("", left), Kid("", Token("operator")),
                             Kid("", right)>>)
NotNode(negand) ==
    SyntaxNode("not_expr", <<>>, <<Kid("", Token("NOT")), Kid("", negand)>>)
OnlyIfNode(dest, src) ==
    SyntaxNode("only_if", <<>>, <<Kid("dest_fact", DestNode(dest)),
                                  Kid("", Token("ONLY IF")),
                                  Kid("src_expr", src)>>)
IfThenNode(dest, src) ==
    SyntaxNode("if_then", <<>>, <<Kid("", Token("IF")), Kid("src_expr", src),
                                  Kid("", Token("THEN")),
                                  Kid("dest_fact", DestNode(dest))>>)
BodyNode(statements) ==
    SyntaxNode("rule_body", <<>>,
               [k \in 1..Len(statements) |-> Kid("", statements[k])])
RuleNode(name, statements) ==
    SyntaxNode("rule_definition", <<>>,
               <<Kid("", Token("RULE")),
                 Kid("name", SyntaxNode("rule_name", name, <<>>)),
                 Kid("body", BodyNode(statements))>>)
SourceFile(items) ==
    SyntaxNode("source_file", <<>>, [k \in 1..Len(items) |-> Kid("", items[k])])

\* What error recovery leaves of a broken document: a rule without its
\* name, a statement without its destination, a connective with an
\* operand in neither slot.
NamelessRuleNode(statements) ==
    SyntaxNode("rule_definition", <<>>,
               <<Kid("", Token("RULE")), Kid("body", BodyNode(statements))>>)
NoDestNode(src) ==
    SyntaxNode("only_if", <<>>, <<Kid("", Token("ONLY IF")),
                                  Kid("src_expr", src)>>)
ThreeOperandNode(type, left, right, extra) ==
    SyntaxNode(type, <<>>, <<Kid("", left), Kid("", Token("operator")),
                             Kid("", right), Kid("", Token("operator")),
                             Kid("", extra)>>)

WellFormedStatements ==
    { OnlyIfNode(dC, BinaryNode("and_expr", FactNode(dA), FactNode(dB))),
      IfThenNode(dC, NotNode(FactNode(dA))),
      OnlyIfNode(dA, BinaryNode("or_expr", FactNode(dB), FactNode(dB))),
      IfThenNode(dB, FactNode(dA)) }

BrokenStatements ==
    { NoDestNode(FactNode(dA)),
      IfThenNode(dC, ThreeOperandNode("and_expr", FactNode(dA), FactNode(dB),
                                      FactNode(dC))) }

StatementNodes == WellFormedStatements \cup BrokenStatements

RECURSIVE SeqsOfLen(_, _)
SeqsOfLen(S, n) ==
    IF n = 0 THEN {<<>>}
    ELSE {Append(q, x) : q \in SeqsOfLen(S, n - 1), x \in S}

RuleNodesOfSize(n) ==
    {RuleNode(name, q) : name \in {"R", "S"}, q \in SeqsOfLen(StatementNodes, n)}
        \cup {NamelessRuleNode(q) : q \in SeqsOfLen(StatementNodes, n)}

\* A statement or an expression outside every rule.
StrayNodes == { <<>>,
                <<IfThenNode(dB, FactNode(dA))>>,
                <<NotNode(FactNode(dA))>> }

\* The statements of each rule of a document: no rule, one rule or two,
\* MaxStatements statements in all.
TreeSizes ==
    {<<>>} \cup {<<n>> : n \in 0..MaxStatements}
        \cup {pair \in (0..MaxStatements) \X (0..MaxStatements) :
                pair[1] + pair[2] <= MaxStatements}

RulesOfSizes(size) ==
    IF Len(size) = 0 THEN {<<>>}
    ELSE IF Len(size) = 1 THEN {<<r>> : r \in RuleNodesOfSize(size[1])}
    ELSE RuleNodesOfSize(size[1]) \X RuleNodesOfSize(size[2])

\* this.program = compileFromCst(...): a throw leaves this.program as
\* it was.
AssignProgram(result) ==
    IF IsThrown(result)
    THEN compiled' = compiled /\ outcome' = "error"
    ELSE compiled' = result /\ outcome' = "ok"

\* One run of recompile (the debounced body): compile the whole tree
\* from a fresh program.
Compile ==
    /\ ncompile < MaxCompiles
    /\ AssignProgram(compileFromCst(cst, FreshProgram))
    /\ ncompile' = ncompile + 1
    /\ UNCHANGED <<cst, sessionVars, stateVars, encoderVars, debounceVars, treeVars>>

InitCompiler ==
    /\ SessionInit
    /\ ProgramStateIdle
    /\ EncoderIdle
    /\ DebounceIdle
    /\ TreeStoreInit
    /\ \E size \in TreeSizes : \E rules \in RulesOfSizes(size) :
            \E stray \in StrayNodes : cst = SourceFile(rules \o stray)
    /\ compiled = Undefined
    /\ outcome = "none"
    /\ ncompile = 0

\* What is left of a node when its k-th child is deleted.
WithoutChild(node, k) ==
    [node EXCEPT !.kids = SubSeq(@, 1, k - 1) \o SubSeq(@, k + 1, Len(@))]

\* The trees an edit of the document can leave: the last rule (or stray
\* node) is deleted, or the name of the first rule is.
EditedTrees(root) ==
    IF Len(root.kids) = 0 THEN {}
    ELSE {WithoutChild(root, Len(root.kids))}
            \cup {[root EXCEPT !.kids[1].node = WithoutChild(@, k)] :
                    k \in {k \in 1..Len(root.kids[1].node.kids) :
                            root.kids[1].node.kids[k].field = "name"}}

\* onDidChangeTextDocument: the tree follows the text; the Program stays
\* as it is until the debounced recompile runs.
ChangeDocument ==
    /\ ncompile < MaxCompiles
    /\ \E edited \in EditedTrees(cst) : cst' = edited
    /\ outcome' = "none"
    /\ UNCHANGED <<compiled, ncompile, sessionVars, stateVars, encoderVars, debounceVars,
                   treeVars>>

NextCompiler == Compile \/ ChangeDocument

SpecCompiler == InitCompiler /\ [][NextCompiler]_vars

\* ---- What is claimed of the compiler ----

\* The nodes of the tree in the order the cursor visits them.
RECURSIVE PreorderFrom(_, _)
PreorderFrom(root, id) ==
    LET succ == gotoPreorderSucc(root, id)
    IN  <<id>> \o (IF succ.moved THEN PreorderFrom(root, succ.at) ELSE <<>>)

Preorder(root) == PreorderFrom(root, <<>>)

NodesOfType(root, types) ==
    {id \in Range(Preorder(root)) : NodeAt(root, id).type \in types}

RECURSIVE GetIn(_, _)
GetIn(obj, path) ==
    IF path = <<>> THEN obj
    ELSE IF Head(path) \in DOMAIN obj THEN GetIn(obj[Head(path)], Tail(path))
    ELSE Undefined

\* What a path finds in Program.rules.
Resolve(prog, path) ==
    LET at == RuleAt(prog, Segment(path, 1))
        k == StatementAt(prog.rules[at].statements, Segment(path, 2))
    IN  IF at = 0 THEN Undefined
        ELSE IF k = 0 THEN Undefined
        ELSE GetIn(prog.rules[at].statements[k], ExprPath(path))

PathOf(root, id) == lineageToPath(root, findLineage(root, id)).path

\* The Program node at the path of a statement is the one compiled from
\* that statement: it carries the range of the statement's dest_fact.
StatementResolves(root, prog, id) ==
    LET found == Resolve(prog, PathOf(root, id))
    IN  /\ "dest_fact" \in DOMAIN found
        /\ found.dest_fact.range = childForFieldName(root, id, "dest_fact")

\* The Program node at the path of a fact_expr carries its range.
FactResolves(root, prog, id) ==
    LET found == Resolve(prog, PathOf(root, id))
    IN  /\ "range" \in DOMAIN found
        /\ found.range = id

\* C16: after a compile that succeeded, the path of every statement and
\* of every fact_expr of the tree, looked up in Program.rules, finds the
\* Program node compiled from that syntax node.
C16_PathsResolve ==
    outcome = "ok" =>
        /\ \A id \in NodesOfType(cst, {"if_then", "only_if"}) :
                StatementResolves(cst, compiled, id)
        /\ \A id \in NodesOfType(cst, {"fact_expr"}) :
                FactResolves(cst, compiled, id)

StatementTypes == {"if_then", "only_if"}
ExpressionTypes == {"and_expr", "or_expr", "not_expr", "fact_expr"}

HasNamelessRule(root) ==
    \E id \in NodesOfType(root, {"rule_definition"}) :
        childForFieldName(root, id, "name") = NoNode

HasStatementWithoutDest(root) ==
    \E id \in NodesOfType(root, StatementTypes) :
        childForFieldName(root, id, "dest_fact") = NoNode

HasNodeOutsideRules(root) ==
    \E id \in NodesOfType(root, StatementTypes \cup ExpressionTypes) :
        \A k \in 0..Len(id) :
            NodeAt(root, SubSeq(id, 1, k)).type # "rule_definition"

HasUnplacedOperand(root) ==
    \E id \in NodesOfType(root, ExpressionTypes) :
        /\ id # <<>>
        /\ NodeAt(root, Parent(id)).type \in {"and_expr", "or_expr"}
        /\ id[Len(id)] \notin {1, 3}

Malformed(root) ==
    \/ HasNamelessRule(root)
    \/ HasStatementWithoutDest(root)
    \/ HasNodeOutsideRules(root)
    \/ HasUnplacedOperand(root)

\* C19: a compile of a tree that has a rule without name, a statement
\* without dest_fact, a statement or expression outside every rule, or
\* a connective child in neither operand slot ends in an error, and no
\* Program comes out of it: the Program held stays the one held before.
C19_MalformedTreeFails ==
    [][(ncompile' = ncompile + 1 /\ Malformed(cst))
        => (outcome' = "error" /\ compiled' = compiled)]_vars

\* A compile has failed on a tree whose one defect is an operand in
\* neither slot of its connective.
C19_Witness ==
    /\ ncompile > 0
    /\ outcome = "error"
    /\ HasUnplacedOperand(cst)
    /\ ~HasNamelessRule(cst)
    /\ ~HasStatementWithoutDest(cst)
    /\ ~HasNodeOutsideRules(cst)

\* A rule that has a name and nothing malformed in it.
WellFormedRule(root, id) == ~Malformed(SourceFile(<<NodeAt(root, id)>>))

RuleName(root, id) == NodeAt(root, childForFieldName(root, id, "name")).text

\* C20: after a compile pass that met a structural error, the Program
\* still has the entry of every well-formed rule of the tree, with the
\* statements of that rule.
C20_ErrorsStayLocal ==
    (ncompile > 0 /\ outcome = "error") =>
        \A id \in NodesOfType(cst, {"rule_definition"}) :
            WellFormedRule(cst, id) =>
                /\ compiled # Undefined
                /\ RuleAt(compiled, RuleName(cst, id)) # 0
                /\ Len(compiled.rules[RuleAt(compiled, RuleName(cst, id))]
                        .statements)
                     >= Len(NodeAt(cst, childForFieldName(cst, id, "body")).kids)

\* The LogicExpression with the shape of the syntax expression at id:
\* the operands of a connective are its first and third child, the
\* operand of a negation its second.
RECURSIVE Mirror(_, _)
Mirror(root, id) ==
    LET type == NodeAt(root, id).type
    IN  IF type \in {"and_expr", "or_expr"}
        THEN [type |-> type, left |-> Mirror(root, Append(id, 1)),
                             right |-> Mirror(root, Append(id, 3))]
        ELSE IF type = "not_expr"
        THEN [type |-> type, negand |-> Mirror(root, Append(id, 2))]
        ELSE [type |-> type, descriptor |-> NodeAt(root, id).text, range |-> id]

\* The statement a statement node stands for, by itself.
OwnStatement(root, id) ==
    LET destFactNode == childForFieldName(root, id, "dest_fact")
    IN  [type |-> NodeAt(root, id).type,
         dest_fact |-> [descriptor |-> NodeAt(root, destFactNode).text,
                        range |-> destFactNode],
         src_expr |-> Mirror(root, childForFieldName(root, id, "src_expr"))]

\* The rule_definition a statement lies in.
RuleOf(root, id) ==
    CHOOSE r \in NodesOfType(root, {"rule_definition"}) :
        Len(r) <= Len(id) /\ SubSeq(id, 1, Len(r)) = r

\* The statements of the definitions of the rule `name`, in source order.
StatementsNamed(root, name) ==
    LET ofName(id) == /\ NodeAt(root, id).type \in StatementTypes
                      /\ RuleName(root, RuleOf(root, id)) = name
    IN  SelectSeq(Preorder(root), ofName)

RuleNames(root) ==
    {RuleName(root, r) : r \in NodesOfType(root, {"rule_definition"})}

DefinitionsNamed(root, name) ==
    {r \in NodesOfType(root, {"rule_definition"}) : RuleName(root, r) = name}

\* The rules entry of `name` holds exactly the statements of all its
\* definitions, in source order, each as compiled by itself.
RuleHoldsOwnStatements(root, prog, name) ==
    LET own == StatementsNamed(root, name)
        at == RuleAt(prog, name)
    IN  /\ Cardinality({i \in 1..Len(prog.rules) : prog.rules[i].name = name}) = 1
        /\ Len(prog.rules[at].statements) = Len(own)
        /\ \A k \in 1..Len(own) :
                prog.rules[at].statements[k] = OwnStatement(root, own[k])

\* C22: when two rule_definition nodes share a name, the Program has one
\* rules entry for it, holding the statements of both in source order,
\* each with its own type, dest_fact and src_expr.
C22_MergedRulesKeepStatements ==
    outcome = "ok" =>
        \A name \in RuleNames(cst) :
            Cardinality(DefinitionsNamed(cst, name)) = 2
                => RuleHoldsOwnStatements(cst, compiled, name)

\* The statements whose dest_fact is d, in source order.
StatementsDetermining(root, d) ==
    LET determines(id) ==
            /\ NodeAt(root, id).type \in StatementTypes
            /\ NodeAt(root, childForFieldName(root, id, "dest_fact")).text = d
    IN  SelectSeq(Preorder(root), determines)

\* Where the statement stands in the statement list of its rule.
IndexInProgram(root, id) ==
    LET own == StatementsNamed(root, RuleName(root, RuleOf(root, id)))
    IN  IndexKeys[CHOOSE k \in 1..Len(own) : own[k] = id]

PathInProgram(root, id) ==
    <<RuleName(root, RuleOf(root, id)), IndexInProgram(root, id)>>

\* C24: after a compile, the determiners of every fact are, in source
\* order, one entry per statement whose dest_fact is that descriptor,
\* with the path [ruleName, statementIndex] of that statement and the
\* statement's own range as position.
C24_DeterminersPerStatement ==
    outcome = "ok" =>
        \A i \in 1..Len(compiled.facts) :
            LET fact == compiled.facts[i]
                own == StatementsDetermining(cst, fact.descriptor)
            IN  /\ Len(fact.determiners) = Len(own)
                /\ \A k \in 1..Len(own) :
                        /\ fact.determiners[k].position = own[k]
                        /\ fact.determiners[k].path = PathInProgram(cst, own[k])

\* The statements whose source expression has a fact_expr naming d.
StatementsRequiring(root, d) ==
    {id \in NodesOfType(root, StatementTypes) :
        \E f \in NodesOfType(root, {"fact_expr"}) :
            /\ NodeAt(root, f).text = d
            /\ Len(id) < Len(f)
            /\ SubSeq(f, 1, Len(id)) = id}

\* C25: after a compile, the requirers of every fact are a flat list of
\* {path} entries, no path twice, whose paths are exactly the
\* [ruleName, statementIndex] of the statements whose source expression
\* mentions the descriptor.
C25_RequirersPerStatement ==
    outcome = "ok" =>
        \A i \in 1..Len(compiled.facts) :
            LET requirers == compiled.facts[i].requirers
            IN  /\ \A k \in 1..Len(requirers) : DOMAIN requirers[k] = {"path"}
                /\ \A j, k \in 1..Len(requirers) :
                        requirers[j].path = requirers[k].path => j = k
                /\ {requirers[k].path : k \in 1..Len(requirers)}
                     = {PathInProgram(cst, id) :
                            id \in StatementsRequiring(cst, compiled.facts[i].descriptor)}

\* The compiled statement standing where the statement node belongs in
\* the Program, or Undefined when the rule has no such statement.
CompiledStatement(root, prog, id) ==
    LET name == RuleName(root, RuleOf(root, id))
        own == StatementsNamed(root, name)
        k == CHOOSE k \in 1..Len(own) : own[k] = id
        statements == prog.rules[RuleAt(prog, name)].statements
    IN  IF k <= Len(statements) THEN statements[k] ELSE Undefined

\* C26: after a compile, the src_expr of every statement has the shape of
\* the syntax expression it was derived from: connectives with left and
\* right from their first and second operand, negations with a negand
\* from their operand, leaves with the descriptor text, and every leaf
\* derived from a syntax node of its own (nothing shared between two
\* statements or two slots).
C26_SrcExprMirrorsSyntax ==
    outcome = "ok" =>
        \A id \in NodesOfType(cst, StatementTypes) :
            Field(CompiledStatement(cst, compiled, id), "src_expr")
                = Mirror(cst, childForFieldName(cst, id, "src_expr"))

\* The descriptors the tree refers to, as the dest_fact of a statement or
\* as a fact_expr.
Referenced(root) ==
    {NodeAt(root, childForFieldName(root, id, "dest_fact")).text :
        id \in {s \in NodesOfType(root, StatementTypes) :
                    childForFieldName(root, s, "dest_fact") # NoNode}}
        \cup {NodeAt(root, f).text : f \in NodesOfType(root, {"fact_expr"})}

\* The facts of the Program are those of the tree: one entry for every
\* referenced descriptor, and no entry without determiner or requirer.
FactsOfTree(root, prog) ==
    /\ {prog.facts[i].descriptor : i \in 1..Len(prog.facts)} = Referenced(root)
    /\ \A i, j \in 1..Len(prog.facts) :
            prog.facts[i].descriptor = prog.facts[j].descriptor => i = j
    /\ \A i \in 1..Len(prog.facts) :
            Len(prog.facts[i].determiners) + Len(prog.facts[i].requirers) > 0

\* C27: the Program held after a recompilation has a facts entry for
\* exactly the descriptors referenced in the current tree, each with at
\* least one determiner or requirer; a descriptor that an edit left
\* without reference has no entry.
C27_FactsFollowTheTree ==
    (ncompile > 0 /\ outcome # "none") =>
        (compiled # Undefined /\ FactsOfTree(cst, compiled))

\* p is the node id or one of its ancestors.
OnChainTo(p, id) == Len(p) <= Len(id) /\ SubSeq(id, 1, Len(p)) = p

Connectives(root) == NodesOfType(root, {"and_expr", "or_expr"})

\* C29: lineageToPath gives the first operand of every and_expr/or_expr
\* the path of the connective followed by 'left' and the second operand
\* that path followed by 'right', told apart by which node they are; after
\* a compile the two slots hold two expressions, each derived from a
\* syntax node of its own, also when the operands read the same.
C29_OperandsByIdentity ==
    \A c \in Connectives(cst) :
        LET first == Append(c, 1)
            second == Append(c, 3)
        IN  /\ PathOf(cst, first) = Append(PathOf(cst, c), "left")
            /\ PathOf(cst, second) = Append(PathOf(cst, c), "right")
            /\ outcome = "ok" =>
                  LET left == Resolve(compiled, PathOf(cst, first))
                      right == Resolve(compiled, PathOf(cst, second))
                  IN  /\ {"descriptor", "range"} \subseteq DOMAIN left
                      /\ {"descriptor", "range"} \subseteq DOMAIN right
                      /\ left.range # right.range

\* A compiled tree with a connective whose two operands read the same.
C29_Witness ==
    /\ outcome = "ok"
    /\ \E c \in Connectives(cst) :
            /\ NodeAt(cst, Append(c, 1)) = NodeAt(cst, Append(c, 3))
            /\ Resolve(compiled, PathOf(cst, Append(c, 1))).range = Append(c, 1)
            /\ Resolve(compiled, PathOf(cst, Append(c, 3))).range = Append(c, 3)

\* The nodes the loop of compileFromCst has as currentNode, in order:
\* from id on, until gotoPreorderSucc returns false or a case throws.
RECURSIVE Processed(_, _, _)
RECURSIVE ProcessedOn(_, _, _)
ProcessedOn(root, id, visited) ==
    LET succ == gotoPreorderSucc(root, id)
    IN  IF IsThrown(visited) THEN <<>>
        ELSE IF succ.moved THEN Processed(root, succ.at, visited)
        ELSE <<>>
Processed(root, id, prog) == <<id>> \o ProcessedOn(root, id, Visit(root, id, prog))

\* Pre-order by definition: a node, then the subtrees of its children
\* from left to right.
RECURSIVE DepthFirst(_, _)
RECURSIVE DepthFirstFrom(_, _, _)
DepthFirst(root, id) == <<id>> \o DepthFirstFrom(root, id, 1)
DepthFirstFrom(root, id, k) ==
    IF k > Len(NodeAt(root, id).kids) THEN <<>>
    ELSE DepthFirst(root, Append(id, k)) \o DepthFirstFrom(root, id, k + 1)

\* The pass went through the nodes in pre-order, each once: all of them
\* when it completed, and up to the node that threw otherwise.
InPreorder(processed, order, completed) ==
    /\ Len(processed) <= Len(order)
    /\ SubSeq(order, 1, Len(processed)) = processed
    /\ \A j, k \in 1..Len(order) : order[j] = order[k] => j = k
    /\ completed => processed = order

\* gotoPreorderSucc moves from each node to the next one in pre-order and
\* returns false at the last one only.
SuccFollows(root, order) ==
    \A k \in 1..Len(order) :
        LET succ == gotoPreorderSucc(root, order[k])
        IN  /\ succ.moved <=> k < Len(order)
            /\ succ.moved => succ.at = order[k + 1]

MaxDocument == 3

\* The texts: letters and the characters of the three line terminators.
EditCharacters == {"a", "\r", "\n"}
RECURSIVE TextsUpTo(_)
TextsUpTo(n) ==
    IF n = 0 THEN {<<>>}
    ELSE TextsUpTo(n - 1)
            \cup {Append(t, c) : t \in {u \in TextsUpTo(n - 1) : Len(u) = n - 1},
                                 c \in EditCharacters}

\* The replacement texts: none, one line, and texts with a line break.
ReplacementTexts ==
    { <<>>, <<"a">>, <<"\n">>, <<"a", "\n", "b", "b">>, <<"\r", "\n", "b">> }

\* The positions of a document holding text: a line of it and a column
\* up to the end of that line.
PositionsIn(text) ==
    LET lines == SplitLines(text)
    IN  {Position(l, c) : l \in 0..(Len(lines) - 1), c \in 0..MaxDocument}
            \cap {pos \in [line : 0..MaxDocument, character : 0..MaxDocument] :
                    /\ pos.line < Len(lines)
                    /\ pos.character <= Len(lines[pos.line + 1])}

Before(pos1, pos2) ==
    \/ pos1.line < pos2.line
    \/ pos1.line = pos2.line /\ pos1.character <= pos2.character

\* The changes of a text: a range inside it and a replacement text.
RangedChangesOf(text) ==
    {[range |-> [start |-> s, end |-> e], text |-> t] :
        s \in PositionsIn(text), e \in PositionsIn(text), t \in ReplacementTexts}

\* updateCst computes the edit of one content change against the text
\* of the tree.
ComputeEdit(change) ==
    /\ nevents = 0
    /\ Before(change.range.start, change.range.end)
    /\ lastEvent' = <<change>>
    /\ lastEdits' = <<getEditFromChange(change, storedTree.input)>>
    /\ nevents' = 1
    /\ UNCHANGED <<docText, storedTree, sessionVars, stateVars, encoderVars, debounceVars,
                   compilerVars>>

InitEdit ==
    /\ SessionInit
    /\ ProgramStateIdle
    /\ EncoderIdle
    /\ DebounceIdle
    /\ CompilerIdle
    /\ docText \in TextsUpTo(MaxDocument)
    /\ storedTree = ParseFresh(docText)
    /\ nevents = 0
    /\ lastEvent = <<>>
    /\ lastEdits = <<>>

NextEdit == \E change \in RangedChangesOf(docText) : ComputeEdit(change)

SpecEdit == InitEdit /\ [][NextEdit]_vars

\* The offset of the first character of every line of text, read off
\* the text character by character.
RECURSIVE LineStartsFrom(_, _, _)
LineStartsFrom(text, i, acc) ==
    IF i > Len(text) THEN acc
    ELSE IF text[i] = "\r" /\ i < Len(text) /\ text[i + 1] = "\n"
    THEN LineStartsFrom(text, i + 2, Append(acc, i + 1))
    ELSE IF text[i] \in {"\r", "\n"}
    THEN LineStartsFrom(text, i + 1, Append(acc, i))
    ELSE LineStartsFrom(text, i + 1, acc)

\* The character offset of a position in text.
OffsetAt(text, pos) == LineStartsFrom(text, 1, <<0>>)[pos.line + 1] + pos.character

\* C31: for every text and every range inside it, whatever line
\* terminators the text holds, getEditFromChange returns the character
\* offsets of range.start and range.end as startIndex and oldEndIndex,
\* and startIndex plus the length of the replacement as newEndIndex.
C31_IndicesAreOffsets ==
    nevents = 1 =>
        /\ lastEdits[1].startIndex = OffsetAt(docText, lastEvent[1].range.start)
        /\ lastEdits[1].oldEndIndex = OffsetAt(docText, lastEvent[1].range.end)
        /\ lastEdits[1].newEndIndex
             = lastEdits[1].startIndex + Len(lastEvent[1].text)

\* Where a text put in at `start` ends: as many rows further down as it
\* has line breaks; behind its last line break if it has one, and
\* otherwise its length to the right of start.
EndOfReplacement(start, text) ==
    LET starts == LineStartsFrom(text, 1, <<0>>)
    IN  [row |-> start.line + Len(starts) - 1,
         column |-> IF Len(starts) > 1 THEN Len(text) - starts[Len(starts)]
                    ELSE start.character + Len(text)]

\* C32: the newEndPosition of getEditFromChange is the row and column at
\* which the replacement text ends in the edited document: the length of
\* its last line as column when it holds line breaks, the start column
\* plus its length when it is a single line.
C32_NewEndPosition ==
    nevents = 1 =>
        lastEdits[1].newEndPosition
            = EndOfReplacement(lastEvent[1].range.start, lastEvent[1].text)

\* --------------------------------- edits, the timer and the compiler

\* onDidChangeTextDocument: the tree follows the text and recompile()
\* is called, which sets the timer anew.
DocumentChanged ==
    /\ treeEdits < MaxCalls
    /\ now < MaxTime
    /\ \E edited \in EditedTrees(cst) : cst' = edited
    /\ outcome' = "none"
    /\ treeEdits' = treeEdits + 1
    /\ timeoutAt' = ResetTimer(now)
    /\ UNCHANGED <<now, calls, recompilations, compiled, ncompile, sessionVars, stateVars,
                   encoderVars, treeVars>>

\* later: the timer is due and runs the body of recompile.
LaterRecompiles ==
    /\ timeoutAt # NoTimer
    /\ now = timeoutAt
    /\ timeoutAt' = NoTimer
    /\ AssignProgram(compileFromCst(cst, FreshProgram))
    /\ ncompile' = ncompile + 1
    /\ UNCHANGED <<now, treeEdits, calls, recompilations, cst, sessionVars, stateVars,
                   encoderVars, treeVars>>

\* The documents open when the editor starts: one rule or two, one
\* statement.
InitLive ==
    /\ SessionInit
    /\ ProgramStateIdle
    /\ EncoderIdle
    /\ DebounceIdle
    /\ TreeStoreInit
    /\ \E size \in {<<1>>, <<0, 1>>} : \E rules \in RulesOfSizes(size) :
            cst = SourceFile(rules)
    /\ compiled = Undefined
    /\ outcome = "none"
    /\ ncompile = 0

NextLive == DocumentChanged \/ LaterRecompiles \/ Tick

\* Time passes and a timer that is due runs: the event loop does not
\* stall.
SpecLive ==
    InitLive /\ [][NextLive]_vars /\ WF_vars(Tick) /\ WF_vars(LaterRecompiles)

\* C33: when the change events have stopped, a recompilation runs after
\* the last one and from then on the Program held is the compile of the
\* tree as the last change left it.
C33_LastEditReachesProgram ==
    <>[](treeEdits > 0 => (timeoutAt = NoTimer /\ outcome = "ok"))

\* ------------------------------------------------- the fact store (util.ts)

\* Calls of incorporateFact one behaviour may hold.
MaxStateCalls == 3

\* enum Bool
Bools == {"true", "false", "unknown"}

\* The descriptors a caller may name: the two constants the constructor
\* constrains, and one it does not.
dx == <<"x">>
dy == <<"y">>
da == <<"a">>
StateDescriptors == {dx, dy, da}

\* The constructor's assertions on this.solver: x => y and x = true.
BaseFormulas ==
    << mk_implies(descriptorToZ3(dx), descriptorToZ3(dy)), descriptorToZ3(dx) >>

FactNames(fs) == {fs[i].name : i \in 1..Len(fs)}

\* The position of the Map entry with this key, 0 if there is none.
EntryOf(fs, name) ==
    IF name \in FactNames(fs) THEN CHOOSE i \in 1..Len(fs) : fs[i].name = name ELSE 0

\* getFact(descriptor, true) followed by fact.value = value: a missing
\* entry is appended, an entry there keeps its place and its descriptor.
SetFact(fs, descriptor, value) ==
    LET i == EntryOf(fs, sanitize(descriptor))
    IN IF i = 0
       THEN Append(fs, [name |-> sanitize(descriptor), descriptor |-> descriptor,
                        value |-> value])
       ELSE [fs EXCEPT ![i].value = value]

\* getFactAssertions: one equality per fact whose value is not unknown, in
\* the order of the Map.
RECURSIVE getFactAssertions(_)
getFactAssertions(fs) ==
    IF fs = <<>> THEN <<>>
    ELSE LET rest == getFactAssertions(SubSeq(fs, 1, Len(fs) - 1))
             fact == fs[Len(fs)]
         IN IF fact.value = "unknown" THEN rest
            ELSE Append(rest, <<fact.name, fact.value>>)

\* The loop of getConsequencesWithFact over the assertions: i from 0 while
\* i < size - 1.
AssertedBy(assertions) ==
    {assertions[i] : i \in 1..(Len(assertions) - 1)}

Pushed(scopes) == UNION Range(scopes)

\* The valuations of the solver's constants that satisfy its assertions.
StateModels(names, equalities) ==
    {val \in [{sanitize(dx), sanitize(dy)} \cup names -> BOOLEAN] :
        /\ \A i \in 1..Len(BaseFormulas) : Eval(BaseFormulas[i], val)
        /\ \A e \in equalities : val[e[1]] = (e[2] = "true")}

\* The fact constants every model makes true, and those every model makes false.
ImpliedTrue(names, models) == {n \in names : \A val \in models : val[n]}
ImpliedFalse(names, models) == {n \in names : \A val \in models : ~val[n]}

SetValues(fs, names, value) ==
    [i \in 1..Len(fs) |-> IF fs[i].name \in names THEN [fs[i] EXCEPT !.value = value]
                          ELSE fs[i]]

\* getConsequencesWithFact up to the solver call: push, set the fact,
\* assert, and leave the call with the solver.
getConsequencesWithFact(fs, scopes, factName, value, retry) ==
    LET set == SetFact(fs, factName, value)
    IN /\ stateFacts' = set
       /\ solverScopes' = Append(scopes, AssertedBy(getFactAssertions(set)))
       /\ solving' = << [factName |-> factName, value |-> value, retry |-> retry,
                         depth |-> Len(scopes)] >>

\* What a step records of the call it has just left with the solver.
CallStep(step, fs, scopes, factName, value) ==
    LET assertions == getFactAssertions(SetFact(fs, factName, value))
    IN [step EXCEPT !.fact = sanitize(factName),
                    !.asserted = AssertedBy(assertions),
                    !.nonUnknown = Range(assertions),
                    !.depthBefore = Len(scopes)]

incorporateFact(factName, value) ==
    /\ solving = <<>>
    /\ nstate < MaxStateCalls
    /\ getConsequencesWithFact(stateFacts, solverScopes, factName, value, FALSE)
    /\ nstate' = nstate + 1
    /\ stateStep' = CallStep([NoStateStep EXCEPT !.action = "call",
                                                 !.depthAfter = Len(solverScopes) + 1],
                             stateFacts, solverScopes, factName, value)
    /\ UNCHANGED <<sessionVars, encoderVars, debounceVars, treeVars, compilerVars>>

\* solver_get_consequences resolves: the scope is popped, and the caller's
\* continuation runs.  The continuation of incorporateFact falsifies the
\* facts of the unsat core and calls again without taking that call's
\* promise; on sat it sets the implied facts to true, and throws at the
\* first consequence that is not a fact constant (a negated one).  The core
\* and the order of the consequences are the solver's.
SolverResolves ==
    /\ solving # <<>>
    /\ LET call == solving[1]
           popped == SubSeq(solverScopes, 1, Len(solverScopes) - 1)
           names == FactNames(stateFacts)
           models == StateModels(names, Pushed(solverScopes))
           sat == IF models = {} THEN "unsat" ELSE "sat"
           step == [NoStateStep EXCEPT !.action = "answer", !.fact = sanitize(call.factName),
                                       !.retry = call.retry, !.sat = sat,
                                       !.depthBefore = call.depth,
                                       !.depthAfter = Len(popped)]
       IN IF call.retry
          THEN /\ stateFacts' = stateFacts
               /\ solverScopes' = popped
               /\ solving' = <<>>
               /\ stateStep' = step
          ELSE IF sat = "unsat"
          THEN \E core \in SUBSET names :
                  /\ getConsequencesWithFact(SetValues(stateFacts, core, "false"), popped,
                                             call.factName, call.value, TRUE)
                  /\ stateStep' = [CallStep(step, SetValues(stateFacts, core, "false"),
                                            popped, call.factName, call.value)
                                      EXCEPT !.core = core, !.applied = TRUE,
                                             !.depthBefore = call.depth]
          ELSE \E implied \in SUBSET ImpliedTrue(names, models) :
                  /\ ImpliedFalse(names, models) = {} => implied = ImpliedTrue(names, models)
                  /\ stateFacts' = SetValues(stateFacts, implied, "true")
                  /\ solverScopes' = popped
                  /\ solving' = <<>>
                  /\ stateStep' = [step EXCEPT !.applied = TRUE,
                                               !.threw = (ImpliedFalse(names, models) # {})]
    /\ UNCHANGED <<nstate, sessionVars, encoderVars, debounceVars, treeVars, compilerVars>>

\* solver_get_consequences rejects: the scope is popped and the call
\* resolves to Z3_L_UNDEF, on which incorporateFact takes neither branch.
SolverRejects ==
    /\ solving # <<>>
    /\ solverScopes' = SubSeq(solverScopes, 1, Len(solverScopes) - 1)
    /\ solving' = <<>>
    /\ stateStep' = [NoStateStep EXCEPT !.action = "answer",
                                        !.fact = sanitize(solving[1].factName),
                                        !.retry = solving[1].retry, !.sat = "undef",
                                        !.applied = ~solving[1].retry,
                                        !.depthBefore = solving[1].depth,
                                        !.depthAfter = Len(solverScopes) - 1]
    /\ UNCHANGED <<stateFacts, nstate, sessionVars, encoderVars, debounceVars, treeVars,
                   compilerVars>>

NextProgramState ==
    \/ \E factName \in StateDescriptors, value \in Bools : incorporateFact(factName, value)
    \/ SolverResolves
    \/ SolverRejects

SpecProgramState == Init /\ [][NextProgramState]_vars

\* C38: getConsequencesWithFact asserts the value of every fact that is not
\* unknown, the fact the call has just set among them, and when the solver
\* call has settled, resolved or rejected, the scope stack is as deep as it
\* was before the call.
C38_AssertsAllAndRestoresDepth ==
    /\ solving # <<>> => solverScopes[Len(solverScopes)] = stateStep.nonUnknown
    /\ (stateStep.action = "answer" /\ solving = <<>>) =>
            Len(solverScopes) = stateStep.depthBefore

\* C37: when the check with the new value is unsatisfiable, the facts of
\* the unsat core become unknown, and the result of the second check is
\* the one the continuation applies.
C37_CoreRetractedAndRetried ==
    /\ (stateStep.action = "answer" /\ stateStep.sat = "unsat" /\ ~stateStep.retry) =>
            \A i \in 1..Len(stateFacts) :
                (stateFacts[i].name \in stateStep.core /\ stateFacts[i].name # stateStep.fact)
                    => stateFacts[i].value = "unknown"
    /\ (stateStep.action = "answer" /\ stateStep.retry) => stateStep.applied

====
